---- MODULE Spec2Model ----
(***************************************************************************)
(* Instanced-draw aggregation of the two renderers of the repository.      *)
(*                                                                         *)
(* TexturedPipeline (src/src/graphics/textured_pipeline.rs): the model     *)
(* buckets with their fixed-capacity instance buffers, the per-frame queue *)
(* of textured quads, and new, push_textured_quad, render and clear, with  *)
(* the add_model and add_instance they call.                               *)
(*                                                                         *)
(* GraphicsState (src/src/graphics/mod.rs): the buckets of the static      *)
(* scene with add_model, add_instance and render, the surface              *)
(* configuration with resize, and the debug square and debug triangle      *)
(* buckets with add_debug_square and add_debug_triangle.                   *)
(*                                                                         *)
(* App (src/src/main.rs) with AppState (src/src/app_state.rs): the window  *)
(* events and what their handler calls.                                    *)
(*                                                                         *)
(* A run is about one of these (program).  A panic (a failed assert!, an   *)
(* unwrap of an Err) ends the process: no operation follows it.            *)
(*                                                                         *)
(* f32 values are small integers (exactly representable, so the matrix     *)
(* products below are exact).  An angle is a number of quarter turns, with *)
(* the exact cosine and sine of that angle.  An instance buffer is the     *)
(* sequence of its f32 words; byte offsets are kept as in the code.        *)
(***************************************************************************)
EXTENDS Integers, Sequences, FiniteSets, TLC

\* ------------------------------------------------------------------ bounds

\* Capacity of the quad bucket (1024 in the source, scaled down).
MAX_QUADS == 4

\* Number of model buckets the model lets add_model create, the quad bucket
\* of TexturedPipeline::new included.
MaxModels == 2

\* Queue lengths explored: one more than the quad capacity, so that a frame
\* can overflow the bucket.
MaxQueued == MAX_QUADS + 1

\* Queue lengths explored where the operations are called in any order.
MaxFreeQueued == 2

\* Capacity of the debug square bucket and of the debug triangle bucket
\* (1000 each in the source, scaled down).
MAX_DEBUG_SQUARES == 2

MAX_DEBUG_TRIANGLES == 2

\* Largest coordinate and scale of the instances whose encoding is explored.
MaxCoord == 2

\* Largest width and height a Camera2DUniform is built for.
MaxDim == 12

\* The debug requests held at most before another update is explored
MaxPending == 8

\* The frames after which the frame count starts again from 0
FrameCycle == 2

\* ------------------------------------------------------- program constants

\* size_of::<f32>()
F32Bytes == 4

\* f32 words of an InstanceRaw ([[f32; 3]; 3])
InstanceRawWords == 3 * 3

\* mem::size_of::<InstanceRaw>()
SizeOfInstanceRaw == InstanceRawWords * F32Bytes

\* SQUARE_VERTICES.len(), SQUARE_INDICES.len()
SquareShape == [num_vertices |-> 4, num_indices |-> 6]

\* TRIANGLE_VERTICES.len(), TRIANGLE_INDICES.len()
TriangleShape == [num_vertices |-> 3, num_indices |-> 3]

Shapes == {SquareShape, TriangleShape}

\* max_instances values passed to add_model
Capacities == {0, 2}

\* ------------------------------------------------------------------ inputs

Vec2(x, y) == <<x, y>>

\* TexturedInstance { position, scale, rotation }
TexturedInstance(position, scale, rotation) ==
    [position |-> position, scale |-> scale, rotation |-> rotation]

\* TexturedQuad { position, dimensions, layer }
TexturedQuad(position, dimensions, layer) ==
    [position |-> position, dimensions |-> dimensions, layer |-> layer]

\* Instances passed to add_instance directly.
Instances ==
    { TexturedInstance(Vec2(1, 2), Vec2(2, 3), 0),
      TexturedInstance(Vec2(3, 1), Vec2(1, 2), 1) }

\* Quads pushed where any sequence of operations is explored.
FewQuads ==
    { TexturedQuad(Vec2(5, 6), Vec2(2, 1), 2),
      TexturedQuad(Vec2(7, 4), Vec2(1, 3), 1) }

\* Quads pushed where the layer sort is explored: two distinguishable quads
\* on layer 1, one on layer 2, one on layer 3.
SortQuads ==
    { TexturedQuad(Vec2(1, 1), Vec2(2, 2), 1),
      TexturedQuad(Vec2(4, 5), Vec2(3, 1), 1),
      TexturedQuad(Vec2(2, 3), Vec2(1, 2), 2),
      TexturedQuad(Vec2(6, 0), Vec2(2, 3), 3) }

\* Instance2D { position, scale, rotation } of graphics/mod.rs
Instance2D(position, scale, rotation) ==
    [position |-> position, scale |-> scale, rotation |-> rotation]

\* Instances passed to add_debug_square and add_debug_triangle.
Instances2D ==
    { Instance2D(Vec2(5, 5), Vec2(3, 3), 1),
      Instance2D(Vec2(2, 7), Vec2(1, 2), 0) }

\* Window and surface sizes <<width, height>>: 4:3, 4:3 again at twice the
\* size, and 1:1.
Sizes == { <<4, 3>>, <<8, 6>>, <<3, 3>> }

\* window.inner_size() where the window size is not what a run is about.
WindowSize == <<4, 3>>

\* KeyCode values of the keyboard events explored.
KeyCodes == { "Escape", "KeyW", "KeyA", "Space" }

\* PhysicalKey: Code(code) or Unidentified(_)
PhysicalKeys == { [kind |-> "Code", code |-> c] : c \in KeyCodes }
                    \cup { [kind |-> "Unidentified", code |-> "none"] }

\* WindowEvent: the variants window_event matches, and one it does not.
WindowEvent(kind, size, physical_key, pressed) ==
    [kind |-> kind, size |-> size, physical_key |-> physical_key, pressed |-> pressed]

\* Fields of a WindowEvent variant that does not carry them
NoSize == <<0, 0>>

NoKey == [kind |-> "none", code |-> "none"]

CloseRequestedEvent == WindowEvent("CloseRequested", NoSize, NoKey, FALSE)

ResizedEvents == { WindowEvent("Resized", size, NoKey, FALSE) : size \in Sizes }

RedrawRequestedEvent == WindowEvent("RedrawRequested", NoSize, NoKey, FALSE)

KeyboardInputEvents ==
    { WindowEvent("KeyboardInput", NoSize, k, pressed) :
          k \in PhysicalKeys, pressed \in BOOLEAN }

\* A variant handled by the `_ => ()` arm
FocusedEvents == { WindowEvent("Focused", NoSize, NoKey, focused) : focused \in BOOLEAN }

\* No event handled yet
NoEvent == WindowEvent("none", NoSize, NoKey, FALSE)

\* A call made by an event handler, with its arguments
Call(name, args) == [call |-> name, args |-> args]

\* ----------------------------------------------------------------- cgmath

\* Column-major 3x3 matrices, as cgmath::Matrix3: m[c][r].
Matrix3(c0, c1, c2) == <<c0, c1, c2>>

\* cos and sin of a number of quarter turns
Cos(q) == CASE q % 4 = 0 -> 1 [] q % 4 = 1 -> 0 [] q % 4 = 2 -> -1 [] OTHER -> 0

Sin(q) == CASE q % 4 = 0 -> 0 [] q % 4 = 1 -> 1 [] q % 4 = 2 -> 0 [] OTHER -> -1

\* Matrix3::from_translation(v)
FromTranslation(v) == Matrix3(<<1, 0, 0>>, <<0, 1, 0>>, <<v[1], v[2], 1>>)

\* Matrix3::from_angle_z(theta)
FromAngleZ(q) == Matrix3(<<Cos(q), Sin(q), 0>>, <<-Sin(q), Cos(q), 0>>, <<0, 0, 1>>)

\* from_nonuniform_scale scaling both axes by x
FromUniformScale(x, y) == Matrix3(<<x, 0, 0>>, <<0, x, 0>>, <<0, 0, 1>>)

\* Matrix3::from_nonuniform_scale(x, y)
FromNonuniformScale(x, y) == Matrix3(<<x, 0, 0>>, <<0, y, 0>>, <<0, 0, 1>>)

\* Matrix3 * Matrix3
MatMul(a, b) ==
    [c \in 1..3 |-> [r \in 1..3 |->
        a[1][r] * b[c][1] + a[2][r] * b[c][2] + a[3][r] * b[c][3]]]

\* to_raw as scale * rotation * translation
ToRawScaleFirst(instance) ==
    [model |->
        MatMul(MatMul(FromNonuniformScale(instance.scale[1], instance.scale[2]),
                      FromAngleZ(instance.rotation)),
               FromTranslation(instance.position))]

\* TexturedInstance::to_raw: translation * rotation * scale, as [[f32; 3]; 3]
ToRaw(instance) ==
    [model |->
        MatMul(MatMul(FromTranslation(instance.position),
                      FromAngleZ(instance.rotation)),
               FromNonuniformScale(instance.scale[1], instance.scale[2]))]

\* bytemuck::cast_slice(&[raw]): the nine f32 words, column after column
CastSlice(raw) ==
    [w \in 1..InstanceRawWords |-> raw.model[((w - 1) \div 3) + 1][((w - 1) % 3) + 1]]

\* ------------------------------------------------------------------ buffers

\* device.create_buffer of `size` bytes: zero-initialised
CreateBuffer(size) == [w \in 1..(size \div F32Bytes) |-> 0]

\* queue.write_buffer(buffer, offset, data): data lands at byte offset `offset`
WriteBuffer(buffer, offset, data) ==
    [w \in 1..Len(buffer) |->
        IF w - 1 >= offset \div F32Bytes /\ w - 1 < (offset \div F32Bytes) + Len(data)
        THEN data[w - (offset \div F32Bytes)]
        ELSE buffer[w]]

\* The words of instance slot n (n counted from 0) of a buffer
Slot(buffer, n) ==
    [w \in 1..InstanceRawWords |-> buffer[(n * SizeOfInstanceRaw) \div F32Bytes + w]]

\* ------------------------------------------------------------------- state

VARIABLES
    models,          \* TexturedPipeline.models: Vec<Model>
    quad_index,      \* TexturedPipeline.quad_index
    textured_quads,  \* TexturedPipeline.textured_quads: Vec<TexturedQuad>
    panicked,        \* an assert! failed: the process has terminated
    last,            \* the operation performed last, with what it issued
    pushed,          \* the quads pushed since the last clear, in push order
    calls,           \* per bucket: the instances passed to add_instance since
                     \* the bucket's live count was last 0, in call order
    phase,           \* position in the frame loop ("free": no frame loop)
    program,         \* which of the two renderers this run is about
    gs_models,       \* GraphicsState.models: Vec<Model>
    gs_calls,        \* as calls, for the buckets of GraphicsState
    cycled,          \* a render followed by a clear has completed
    config,          \* GraphicsState.config: the surface configuration
    depth_texture,   \* the size GraphicsState.depth_texture was created with
    camera_aspect,   \* GraphicsState.camera.aspect
    debug_square,    \* GraphicsState.debug_square
    debug_triangle,  \* GraphicsState.debug_triangle
    debug_draws,     \* the debug draw calls issued by the operation performed last
    state,           \* App.state: Option<AppState>
    exit_requested,  \* event_loop.exit() has been called
    event,           \* the window event handled last
    steps,           \* the calls its handler made, in order
    requests,        \* the debug draw requests GraphicsState holds for the frame
    redraw_requested, \* window.request_redraw() was called and is not yet served
    frames,          \* the frames run for RedrawRequested, counted modulo FrameCycle
    enc,             \* an instance and, once encoded, its raw words
    camera_2d        \* the dimensions a Camera2DUniform was built for, and it

\* The surface configuration and what was derived from it
surface_vars == <<config, depth_texture, camera_aspect>>

\* The debug buckets
debug_vars == <<debug_square, debug_triangle, debug_draws>>

\* The redraw requests of the window and the frames they led to
loop_vars == <<redraw_requested, frames>>

\* The state of App
app_vars == <<state, exit_requested, event, steps, requests, loop_vars>>

\* The arguments and results of the functions explored on their own
pure_vars == <<enc, camera_2d>>

\* What the operations on the buckets leave alone
other_vars == <<surface_vars, debug_vars, app_vars, pure_vars>>

vars == <<models, quad_index, textured_quads, panicked, last, pushed, calls, phase,
          program, gs_models, gs_calls, cycled, surface_vars, debug_vars, app_vars, pure_vars>>

\* The state of GraphicsState
gs_vars == <<gs_models, gs_calls>>

\* The state of TexturedPipeline
tp_vars == <<models, quad_index, textured_quads, pushed, calls, cycled>>

\* The model bucket with index i (indices count from 0, as in the Vec)
ModelAt(ms, i) == ms[i + 1]

HasModel(ms, i) == i >= 0 /\ i < Len(ms)

\* What an operation issued: the model index it was given, its return
\* value, the buffer writes and the draw calls it made.
Op(name, index, ret, writes, draws) ==
    [op |-> name, index |-> index, ret |-> ret, writes |-> writes, draws |-> draws]

\* No model index / no return value
NoIndex == 0 - 1

\* ----------------------------------------------------------------- add_model

\* add_model creating an instance buffer of max_instances matrix columns
AddModelColumnBuffer(ms, shape, max_instances) ==
    [models |-> Append(ms,
        [num_vertices    |-> shape.num_vertices,
         num_indices     |-> shape.num_indices,
         instance_buffer |-> CreateBuffer(3 * F32Bytes * max_instances),
         num_instances   |-> 0,
         max_instances   |-> max_instances]),
     model_index |-> Len(ms)]

\* TexturedPipeline::add_model: pushes a bucket and returns its index
AddModelTo(ms, shape, max_instances) ==
    [models |-> Append(ms,
        [num_vertices    |-> shape.num_vertices,
         num_indices     |-> shape.num_indices,
         instance_buffer |-> CreateBuffer(SizeOfInstanceRaw * max_instances),
         num_instances   |-> 0,
         max_instances   |-> max_instances]),
     model_index |-> Len(ms)]

\* -------------------------------------------------------------- add_instance

\* add_instance without its assertion
AddInstanceNoAssert(ms, model_index, instance) ==
    IF ~HasModel(ms, model_index)
    THEN [models |-> ms, panicked |-> FALSE, writes |-> <<>>]
    ELSE LET model  == ModelAt(ms, model_index)
             offset == model.num_instances * SizeOfInstanceRaw
             data   == CastSlice(ToRaw(instance))
         IN  [models |->
                 [ms EXCEPT ![model_index + 1] =
                     [model EXCEPT
                         !.instance_buffer = WriteBuffer(@, offset, data),
                         !.num_instances = @ + 1]],
              panicked |-> FALSE,
              writes |-> <<[model |-> model_index, offset |-> offset, data |-> data]>>]

\* add_instance asserting num_instances <= max_instances
AddInstanceAssertLe(ms, model_index, instance) ==
    IF HasModel(ms, model_index)
       /\ ModelAt(ms, model_index).num_instances > ModelAt(ms, model_index).max_instances
    THEN [models |-> ms, panicked |-> TRUE, writes |-> <<>>]
    ELSE AddInstanceNoAssert(ms, model_index, instance)

\* TexturedPipeline::add_instance on the buckets ms.  The result carries the
\* buckets afterwards, whether the assertion failed, and the writes issued.
AddInstanceTo(ms, model_index, instance) ==
    IF ~HasModel(ms, model_index)
    THEN [models |-> ms, panicked |-> FALSE, writes |-> <<>>]
    ELSE LET model == ModelAt(ms, model_index) IN
         IF ~(model.num_instances < model.max_instances)
         THEN [models |-> ms, panicked |-> TRUE, writes |-> <<>>]
         ELSE LET offset == model.num_instances * SizeOfInstanceRaw
                  data   == CastSlice(ToRaw(instance))
              IN  [models |->
                      [ms EXCEPT ![model_index + 1] =
                          [model EXCEPT
                              !.instance_buffer = WriteBuffer(@, offset, data),
                              !.num_instances = @ + 1]],
                   panicked |-> FALSE,
                   writes |-> <<[model |-> model_index, offset |-> offset, data |-> data]>>]

\* ---------------------------------------------------------------------- init

\* TexturedPipeline::new: one bucket, the quad, with capacity MAX_QUADS
TexturedPipelineNew ==
    /\ models = AddModelTo(<<>>, SquareShape, MAX_QUADS).models
    /\ quad_index = AddModelTo(<<>>, SquareShape, MAX_QUADS).model_index
    /\ textured_quads = <<>>
    /\ pushed = <<>>
    /\ calls = <<(<<>>)>>
    /\ cycled = FALSE

\* The greatest common divisor of two positive numbers
RECURSIVE Gcd(_, _)
Gcd(a, b) == IF b = 0 THEN a ELSE Gcd(b, a % b)

\* width as f32 / height as f32, for width and height above 0: the quotient
\* as the fraction <<numerator, denominator>> in lowest terms (two pairs of
\* small numbers have the same f32 quotient exactly when these agree)
Ratio(width, height) == <<width \div Gcd(width, height), height \div Gcd(width, height)>>

\* f32 words of an Instance2DRaw ([[f32; 3]; 3])
Instance2DRawWords == 3 * 3

\* mem::size_of::<Instance2DRaw>()
SizeOfInstance2DRaw == Instance2DRawWords * F32Bytes

\* DebugSquare / DebugTriangle as GraphicsState::new creates them: an
\* instance buffer for max_instances instances, no live instance
DebugBucketNew(max_instances) ==
    [instance_buffer |-> CreateBuffer(SizeOfInstance2DRaw * max_instances),
     num_instances   |-> 0]

\* GraphicsState::new in a window of size window_size: no bucket yet, the
\* surface configured to the window size, the camera aspect derived from it
GraphicsStateNew(window_size) ==
    /\ gs_models = <<>>
    /\ gs_calls = <<>>
    /\ config = [width |-> window_size[1], height |-> window_size[2]]
    /\ depth_texture = [width |-> window_size[1], height |-> window_size[2]]
    /\ camera_aspect = Ratio(window_size[1], window_size[2])
    /\ debug_square = DebugBucketNew(MAX_DEBUG_SQUARES)
    /\ debug_triangle = DebugBucketNew(MAX_DEBUG_TRIANGLES)
    /\ debug_draws = <<>>

\* No Camera2DUniform built
NoCamera == [width |-> 0, height |-> 0, projection |-> <<>>]

\* No instance encoded
NoEnc == [kind |-> "none", instance |-> <<>>, raw |-> <<>>]

\* main: App { state: None }
AppNew ==
    /\ state = "None"
    /\ exit_requested = FALSE
    /\ event = NoEvent
    /\ steps = <<>>
    /\ requests = <<>>
    /\ redraw_requested = FALSE
    /\ frames = 0

Init ==
    /\ program \in {"textured_pipeline", "graphics_state"}
    /\ TexturedPipelineNew
    /\ GraphicsStateNew(WindowSize)
    /\ AppNew
    /\ enc = NoEnc
    /\ camera_2d = NoCamera
    /\ panicked = FALSE
    /\ last = Op("new", NoIndex, NoIndex, <<>>, <<>>)
    /\ phase = "free"

\* ------------------------------------------------------------------- render

\* The number of elements of a sorted run whose key is at most that of q
KeysAtMost(sorted, q) == Cardinality({i \in 1..Len(sorted) : sorted[i].layer <= q.layer})

\* A sort step that puts q before the elements with its own key
InsertBeforeEqual(sorted, q) ==
    LET k == Cardinality({i \in 1..Len(sorted) : sorted[i].layer < q.layer})
    IN  SubSeq(sorted, 1, k) \o <<q>> \o SubSeq(sorted, k + 1, Len(sorted))

\* One step of the stable sort: q goes after every element with a key <= its own
InsertByKey(sorted, q) ==
    SubSeq(sorted, 1, KeysAtMost(sorted, q)) \o <<q>>
        \o SubSeq(sorted, KeysAtMost(sorted, q) + 1, Len(sorted))

\* self.textured_quads.sort_by_key(|k| k.layer): a stable sort
RECURSIVE SortByKey(_)
SortByKey(quads) ==
    IF quads = <<>> THEN <<>>
    ELSE InsertByKey(SortByKey(SubSeq(quads, 1, Len(quads) - 1)), quads[Len(quads)])

\* An instance with the quad's position and dimensions exchanged
QuadInstanceSwapped(quad) == TexturedInstance(quad.dimensions, quad.position, 0)

\* The instance render builds of a quad
QuadInstance(quad) == TexturedInstance(quad.position, quad.dimensions, 0)

\* The loop of render over the sorted queue: one add_instance per quad; a
\* failed assertion ends it.  acc carries the buckets, the writes issued and
\* the instances passed so far.
RECURSIVE UploadQuads(_, _, _)
UploadQuads(acc, qi, quads) ==
    IF quads = <<>> THEN acc
    ELSE LET r == AddInstanceTo(acc.models, qi, QuadInstance(Head(quads)))
             next == [models   |-> r.models,
                      panicked |-> r.panicked,
                      writes   |-> acc.writes \o r.writes,
                      calls    |-> Append(acc.calls, QuadInstance(Head(quads)))]
         IN  IF r.panicked THEN next ELSE UploadQuads(next, qi, Tail(quads))

\* A draw loop that skips the buckets without instances
DrawCallsSkipEmpty(ms) ==
    SelectSeq([i \in 1..Len(ms) |->
                  [model     |-> i - 1,
                   indices   |-> ms[i].num_indices,
                   instances |-> ms[i].num_instances]],
              LAMBDA d : d.instances > 0)

\* A draw loop whose instance range is the whole buffer of each bucket
DrawCallsWholeBuffer(ms) ==
    [i \in 1..Len(ms) |->
        [model     |-> i - 1,
         indices   |-> ms[i].num_indices,
         instances |-> ms[i].max_instances]]

\* The draw loop of render: one draw_indexed per bucket
DrawCalls(ms) ==
    [i \in 1..Len(ms) |->
        [model     |-> i - 1,
         indices   |-> ms[i].num_indices,
         instances |-> ms[i].num_instances]]

\* A render that starts the quad's live count at 0 before its uploads
RenderResetting(ms, qi, quads) ==
    LET sorted == SortByKey(quads)
        up == UploadQuads([models   |-> [ms EXCEPT ![qi + 1].num_instances = 0],
                           panicked |-> FALSE, writes |-> <<>>, calls |-> <<>>],
                          qi, sorted)
    IN  [textured_quads |-> sorted,
         models   |-> up.models,
         panicked |-> up.panicked,
         writes   |-> up.writes,
         calls    |-> up.calls,
         draws    |-> IF up.panicked THEN <<>> ELSE DrawCalls(up.models)]

\* TexturedPipeline::render
RenderOf(ms, qi, quads) ==
    LET sorted == SortByKey(quads)
        up == UploadQuads([models |-> ms, panicked |-> FALSE, writes |-> <<>>, calls |-> <<>>],
                          qi, sorted)
    IN  [textured_quads |-> sorted,
         models   |-> up.models,
         panicked |-> up.panicked,
         writes   |-> up.writes,
         calls    |-> up.calls,
         draws    |-> IF up.panicked THEN <<>> ELSE DrawCalls(up.models)]

\* -------------------------------------------------------------------- clear

\* clear leaving the quad's live count as it is
ClearKeepCount(ms, qi, quads) == [textured_quads |-> <<>>, models |-> ms]

\* clear leaving the queue as it is
ClearKeepQueue(ms, qi, quads) ==
    [textured_quads |-> quads,
     models |-> [ms EXCEPT ![qi + 1].num_instances = 0]]

\* push at the front of the queue
PushFront(quads, quad) == <<quad>> \o quads

\* clear creating the quad's instance buffer anew
ClearReallocating(ms, qi, quads) ==
    [textured_quads |-> <<>>,
     models |-> [ms EXCEPT
                    ![qi + 1].num_instances = 0,
                    ![qi + 1].instance_buffer =
                        CreateBuffer(SizeOfInstanceRaw * ms[qi + 1].max_instances)]]

\* TexturedPipeline::clear: empties the queue, zeroes the quad's live count
ClearOf(ms, qi, quads) ==
    [textured_quads |-> <<>>,
     models |-> [ms EXCEPT ![qi + 1].num_instances = 0]]

\* TexturedPipeline::push_textured_quad: Vec::push
PushOf(quads, quad) == Append(quads, quad)

\* ------------------------------------------------------------ GraphicsState

\* Instance { position, scale, rotation } of graphics/mod.rs: 3-vectors and a
\* quaternion <<s, x, y, z>>
Instance(position, scale, rotation) ==
    [position |-> position, scale |-> scale, rotation |-> rotation]

\* Instances passed to GraphicsState::add_instance: no rotation, and a half
\* turn about z
Instances3 ==
    { Instance(<<1, 2, 0>>, <<2, 3, 1>>, <<1, 0, 0, 0>>),
      Instance(<<3, 1, 2>>, <<1, 2, 2>>, <<0, 0, 0, 1>>) }

\* The instance passed to add_instance where the surface is resized too
SceneInstances == { Instance(<<1, 2, 0>>, <<2, 3, 1>>, <<1, 0, 0, 0>>) }

\* f32 words of the InstanceRaw of graphics/mod.rs ([[f32; 4]; 4])
GsInstanceRawWords == 4 * 4

\* mem::size_of::<InstanceRaw>() in graphics/mod.rs
GsSizeOfInstanceRaw == GsInstanceRawWords * F32Bytes

\* Matrix4::from_translation(v)
FromTranslation4(v) ==
    <<(<<1, 0, 0, 0>>), (<<0, 1, 0, 0>>), (<<0, 0, 1, 0>>), (<<v[1], v[2], v[3], 1>>)>>

\* Matrix4::from(quaternion)
FromQuaternion4(q) ==
    LET s == q[1]  x == q[2]  y == q[3]  z == q[4] IN
    <<(<<1 - 2*y*y - 2*z*z, 2*x*y + 2*z*s, 2*x*z - 2*y*s, 0>>),
      (<<2*x*y - 2*z*s, 1 - 2*x*x - 2*z*z, 2*y*z + 2*x*s, 0>>),
      (<<2*x*z + 2*y*s, 2*y*z - 2*x*s, 1 - 2*x*x - 2*y*y, 0>>),
      (<<0, 0, 0, 1>>)>>

\* Matrix4::from_nonuniform_scale(x, y, z)
FromNonuniformScale4(x, y, z) ==
    <<(<<x, 0, 0, 0>>), (<<0, y, 0, 0>>), (<<0, 0, z, 0>>), (<<0, 0, 0, 1>>)>>

\* Matrix4 * Matrix4
MatMul4(a, b) ==
    [c \in 1..4 |-> [r \in 1..4 |->
        a[1][r] * b[c][1] + a[2][r] * b[c][2] + a[3][r] * b[c][3] + a[4][r] * b[c][4]]]

\* Instance::to_raw of graphics/mod.rs
GsToRaw(instance) ==
    [model |->
        MatMul4(MatMul4(FromTranslation4(instance.position),
                        FromQuaternion4(instance.rotation)),
                FromNonuniformScale4(instance.scale[1], instance.scale[2], instance.scale[3]))]

\* bytemuck::cast_slice(&[raw]) of a 4x4 matrix
GsCastSlice(raw) ==
    [w \in 1..GsInstanceRawWords |-> raw.model[((w - 1) \div 4) + 1][((w - 1) % 4) + 1]]

\* The words of instance slot n of a buffer of GraphicsState
GsSlot(buffer, n) ==
    [w \in 1..GsInstanceRawWords |-> buffer[(n * GsSizeOfInstanceRaw) \div F32Bytes + w]]

\* add_model returning the number of buckets after the push
GsAddModelCountAfter(ms, shape, max_instances) ==
    [models |-> Append(ms,
        [num_vertices    |-> shape.num_vertices,
         num_indices     |-> shape.num_indices,
         instance_buffer |-> CreateBuffer(GsSizeOfInstanceRaw * max_instances),
         num_instances   |-> 0,
         max_instances   |-> max_instances]),
     model_index |-> Len(ms) + 1]

\* GraphicsState::add_model
GsAddModelTo(ms, shape, max_instances) ==
    [models |-> Append(ms,
        [num_vertices    |-> shape.num_vertices,
         num_indices     |-> shape.num_indices,
         instance_buffer |-> CreateBuffer(GsSizeOfInstanceRaw * max_instances),
         num_instances   |-> 0,
         max_instances   |-> max_instances]),
     model_index |-> Len(ms)]

\* add_instance taking the live count as the byte offset of the write
GsAddInstanceCountOffset(ms, model_index, instance) ==
    IF ~HasModel(ms, model_index)
    THEN [models |-> ms, panicked |-> FALSE, writes |-> <<>>]
    ELSE LET model == ModelAt(ms, model_index) IN
         IF ~(model.num_instances < model.max_instances)
         THEN [models |-> ms, panicked |-> TRUE, writes |-> <<>>]
         ELSE LET offset == model.num_instances * F32Bytes
                  data   == GsCastSlice(GsToRaw(instance))
              IN  [models |->
                      [ms EXCEPT ![model_index + 1] =
                          [model EXCEPT
                              !.instance_buffer = WriteBuffer(@, offset, data),
                              !.num_instances = @ + 1]],
                   panicked |-> FALSE,
                   writes |-> <<[model |-> model_index, offset |-> offset, data |-> data]>>]

\* add_instance starting over at slot 0 when the bucket is full
GsAddInstanceWrapping(ms, model_index, instance) ==
    IF ~HasModel(ms, model_index)
    THEN [models |-> ms, panicked |-> FALSE, writes |-> <<>>]
    ELSE LET model  == ModelAt(ms, model_index)
             slot   == IF model.num_instances < model.max_instances
                       THEN model.num_instances ELSE 0
             offset == slot * GsSizeOfInstanceRaw
             data   == GsCastSlice(GsToRaw(instance))
         IN  IF model.max_instances = 0
             THEN [models |-> ms, panicked |-> TRUE, writes |-> <<>>]
             ELSE [models |->
                      [ms EXCEPT ![model_index + 1] =
                          [model EXCEPT
                              !.instance_buffer = WriteBuffer(@, offset, data),
                              !.num_instances = slot + 1]],
                   panicked |-> FALSE,
                   writes |-> <<[model |-> model_index, offset |-> offset, data |-> data]>>]

\* add_instance indexing the buckets with models[model_index], which fails
\* for an index out of range
GsAddInstanceIndexing(ms, model_index, instance) ==
    IF ~HasModel(ms, model_index)
    THEN [models |-> ms, panicked |-> TRUE, writes |-> <<>>]
    ELSE LET model == ModelAt(ms, model_index) IN
         IF ~(model.num_instances < model.max_instances)
         THEN [models |-> ms, panicked |-> TRUE, writes |-> <<>>]
         ELSE LET offset == model.num_instances * GsSizeOfInstanceRaw
                  data   == GsCastSlice(GsToRaw(instance))
              IN  [models |->
                      [ms EXCEPT ![model_index + 1] =
                          [model EXCEPT
                              !.instance_buffer = WriteBuffer(@, offset, data),
                              !.num_instances = @ + 1]],
                   panicked |-> FALSE,
                   writes |-> <<[model |-> model_index, offset |-> offset, data |-> data]>>]

\* GraphicsState::add_instance
GsAddInstanceTo(ms, model_index, instance) ==
    IF ~HasModel(ms, model_index)
    THEN [models |-> ms, panicked |-> FALSE, writes |-> <<>>]
    ELSE LET model == ModelAt(ms, model_index) IN
         IF ~(model.num_instances < model.max_instances)
         THEN [models |-> ms, panicked |-> TRUE, writes |-> <<>>]
         ELSE LET offset == model.num_instances * GsSizeOfInstanceRaw
                  data   == GsCastSlice(GsToRaw(instance))
              IN  [models |->
                      [ms EXCEPT ![model_index + 1] =
                          [model EXCEPT
                              !.instance_buffer = WriteBuffer(@, offset, data),
                              !.num_instances = @ + 1]],
                   panicked |-> FALSE,
                   writes |-> <<[model |-> model_index, offset |-> offset, data |-> data]>>]

\* The draw loop over the buckets in GraphicsState::render
GsDrawCalls(ms) ==
    [i \in 1..Len(ms) |->
        [model     |-> i - 1,
         indices   |-> ms[i].num_indices,
         instances |-> ms[i].num_instances]]

\* add_model(vertices, indices, max_instances)
GsAddModelStep(shape, max_instances) ==
    /\ ~panicked
    /\ LET r == GsAddModelTo(gs_models, shape, max_instances) IN
       /\ gs_models' = r.models
       /\ last' = Op("add_model", NoIndex, r.model_index, <<>>, <<>>)
    /\ gs_calls' = Append(gs_calls, <<>>)
    /\ debug_draws' = <<>>
    /\ UNCHANGED <<panicked, phase, program, tp_vars, surface_vars,
                   debug_square, debug_triangle, app_vars, pure_vars>>

\* add_instance(model_index, instance)
GsAddInstanceStep(model_index, instance) ==
    /\ ~panicked
    /\ LET r == GsAddInstanceTo(gs_models, model_index, instance) IN
       /\ gs_models' = r.models
       /\ panicked' = r.panicked
       /\ last' = Op("add_instance", model_index, NoIndex, r.writes, <<>>)
    /\ gs_calls' = IF HasModel(gs_models, model_index)
                   THEN [gs_calls EXCEPT ![model_index + 1] = Append(@, instance)]
                   ELSE gs_calls
    /\ debug_draws' = <<>>
    /\ UNCHANGED <<phase, program, tp_vars, surface_vars,
                   debug_square, debug_triangle, app_vars, pure_vars>>

\* Instance::to_raw of graphics/debug.rs: translation * rotation * scale
DebugToRaw(instance) ==
    [model |->
        MatMul(MatMul(FromTranslation(instance.position),
                      FromAngleZ(instance.rotation)),
               FromNonuniformScale(instance.scale[1], instance.scale[2]))]

\* Instance2D::to_raw: translation * rotation * scale, as [[f32; 3]; 3]
Instance2DToRaw(instance) ==
    [model |->
        MatMul(MatMul(FromTranslation(instance.position),
                      FromAngleZ(instance.rotation)),
               FromNonuniformScale(instance.scale[1], instance.scale[2]))]

\* The body of add_debug_square and of add_debug_triangle on their bucket:
\* a write at byte offset num_instances * size_of(Instance2DRaw), then the
\* increment, with no check against the size of the buffer.  A write that
\* does not fit the buffer is rejected by the queue and leaves it as it was.
AddDebugTo(bucket, name, instance) ==
    LET offset == bucket.num_instances * SizeOfInstance2DRaw
        data   == CastSlice(Instance2DToRaw(instance))
        fits   == offset + Len(data) * F32Bytes <= Len(bucket.instance_buffer) * F32Bytes
    IN  [bucket |->
            [instance_buffer |-> IF fits
                                 THEN WriteBuffer(bucket.instance_buffer, offset, data)
                                 ELSE bucket.instance_buffer,
             num_instances   |-> bucket.num_instances + 1],
         rejected |-> ~fits,
         writes |-> <<[model |-> name, offset |-> offset, data |-> data]>>]

\* The debug draw calls of GraphicsState::render: draw_indexed(0..6, 0,
\* 0..num_instances) for the squares, then draw(0..3, 0..num_instances) for
\* the triangles
DebugDrawCalls(square, triangle) ==
    <<[bucket |-> "debug_square", indexed |-> TRUE, count |-> 6,
       instances |-> square.num_instances],
      [bucket |-> "debug_triangle", indexed |-> FALSE, count |-> 3,
       instances |-> triangle.num_instances]>>

\* Draw calls as the render pass records them, after `before` earlier ones:
\* each carries its position in the pass
Recorded(draw_calls, before) ==
    [i \in 1..Len(draw_calls) |-> [order |-> before + i] @@ draw_calls[i]]

\* GraphicsState::render with the debug rendering ahead of the models
GsRenderDebugFirst(ms, square, triangle, acquired) ==
    IF acquired
    THEN [ok |-> TRUE, draws |-> Recorded(GsDrawCalls(ms), 2),
          debug_draws |-> Recorded(DebugDrawCalls(square, triangle), 0)]
    ELSE [ok |-> FALSE, draws |-> <<>>, debug_draws |-> <<>>]

\* GraphicsState::render: Err and nothing drawn when the surface image
\* cannot be acquired; else the draw loop over the buckets, then the debug
\* draw calls
GsRenderOf(ms, square, triangle, acquired) ==
    IF acquired
    THEN [ok |-> TRUE, draws |-> Recorded(GsDrawCalls(ms), 0),
          debug_draws |-> Recorded(DebugDrawCalls(square, triangle), Len(ms))]
    ELSE [ok |-> FALSE, draws |-> <<>>, debug_draws |-> <<>>]

\* GraphicsState::resize on the surface configuration
GsResizeOf(cfg, width, height) == [cfg EXCEPT !.width = width, !.height = height]

\* render()
GsRenderStep(acquired) ==
    /\ ~panicked
    /\ LET r == GsRenderOf(gs_models, debug_square, debug_triangle, acquired) IN
       /\ last' = Op(IF r.ok THEN "render" ELSE "render_failed",
                     NoIndex, NoIndex, <<>>, r.draws)
       /\ debug_draws' = r.debug_draws
    /\ UNCHANGED <<panicked, phase, program, tp_vars, gs_vars, surface_vars,
                   debug_square, debug_triangle, app_vars, pure_vars>>

\* resize(width, height): the surface is configured to the new size and
\* the depth texture created anew from the configuration; the camera is
\* not touched
GsResizeStep(width, height) ==
    /\ ~panicked
    /\ config' = GsResizeOf(config, width, height)
    /\ depth_texture' = [width |-> config'.width, height |-> config'.height]
    /\ last' = Op("resize", NoIndex, NoIndex, <<>>, <<>>)
    /\ debug_draws' = <<>>
    /\ UNCHANGED <<panicked, phase, program, tp_vars, gs_vars, camera_aspect,
                   debug_square, debug_triangle, app_vars, pure_vars>>

\* add_debug_square(instance).  A rejected write is a validation error of
\* the queue: it ends the process where it is raised (ends_process), or is
\* delivered to an error handler and the call goes on.
AddDebugSquareStep(instance, ends_process) ==
    /\ ~panicked
    /\ LET r == AddDebugTo(debug_square, "debug_square", instance) IN
       /\ panicked' = (r.rejected /\ ends_process)
       /\ debug_square' = IF panicked' THEN debug_square ELSE r.bucket
       /\ last' = Op("add_debug_square", NoIndex, NoIndex, r.writes, <<>>)
    /\ debug_draws' = <<>>
    /\ UNCHANGED <<phase, program, tp_vars, gs_vars, surface_vars,
                   debug_triangle, app_vars, pure_vars>>

\* add_debug_triangle(instance)
AddDebugTriangleStep(instance, ends_process) ==
    /\ ~panicked
    /\ LET r == AddDebugTo(debug_triangle, "debug_triangle", instance) IN
       /\ panicked' = (r.rejected /\ ends_process)
       /\ debug_triangle' = IF panicked' THEN debug_triangle ELSE r.bucket
       /\ last' = Op("add_debug_triangle", NoIndex, NoIndex, r.writes, <<>>)
    /\ debug_draws' = <<>>
    /\ UNCHANGED <<phase, program, tp_vars, gs_vars, surface_vars,
                   debug_square, app_vars, pure_vars>>

\* ------------------------------------------------------------------ actions

\* push_textured_quad(quad)
PushStep(quad) ==
    /\ ~panicked
    /\ textured_quads' = PushOf(textured_quads, quad)
    /\ last' = Op("push_textured_quad", NoIndex, NoIndex, <<>>, <<>>)
    /\ pushed' = Append(pushed, quad)
    /\ UNCHANGED <<models, quad_index, panicked, calls, cycled, program, gs_vars, other_vars>>

\* render(queue, render_pass, camera_bind_group)
RenderStep ==
    /\ ~panicked
    /\ LET r == RenderOf(models, quad_index, textured_quads) IN
       /\ textured_quads' = r.textured_quads
       /\ models' = r.models
       /\ panicked' = r.panicked
       /\ last' = Op("render", NoIndex, NoIndex, r.writes, r.draws)
       /\ calls' = [calls EXCEPT ![quad_index + 1] = @ \o r.calls]
    /\ UNCHANGED <<quad_index, pushed, cycled, program, gs_vars, other_vars>>

\* clear()
ClearStep ==
    /\ ~panicked
    /\ textured_quads' = ClearOf(models, quad_index, textured_quads).textured_quads
    /\ models' = ClearOf(models, quad_index, textured_quads).models
    /\ last' = Op("clear", NoIndex, NoIndex, <<>>, <<>>)
    /\ pushed' = <<>>
    /\ calls' = [calls EXCEPT ![quad_index + 1] = <<>>]
    /\ cycled' = (cycled \/ last.op = "render")
    /\ UNCHANGED <<quad_index, panicked, program, gs_vars, other_vars>>

\* The public operations of the pipeline, called in any order
PushTexturedQuad ==
    /\ program = "textured_pipeline"
    /\ Len(textured_quads) < MaxFreeQueued
    /\ \E q \in FewQuads : PushStep(q)
    /\ UNCHANGED phase

Render == program = "textured_pipeline" /\ RenderStep /\ UNCHANGED phase

Clear == program = "textured_pipeline" /\ ClearStep /\ UNCHANGED phase

\* The public operations of GraphicsState, called in any order
AddModel ==
    /\ program = "graphics_state"
    /\ Len(gs_models) < MaxModels
    /\ \E shape \in Shapes, max_instances \in Capacities : GsAddModelStep(shape, max_instances)

AddInstance ==
    /\ program = "graphics_state"
    /\ \E i \in 0..MaxModels, instance \in Instances3 : GsAddInstanceStep(i, instance)

GsRender ==
    /\ program = "graphics_state"
    /\ \E acquired \in BOOLEAN : GsRenderStep(acquired)

Next == PushTexturedQuad \/ Render \/ Clear \/ AddModel \/ AddInstance \/ GsRender

Spec == Init /\ [][Next]_vars

\* ------------------------------------------------------------ the frame loop

\* One frame: the update phase pushes quads, then render, then clear.
FrameInit ==
    /\ program = "textured_pipeline"
    /\ TexturedPipelineNew
    /\ GraphicsStateNew(WindowSize)
    /\ AppNew
    /\ enc = NoEnc
    /\ camera_2d = NoCamera
    /\ panicked = FALSE
    /\ last = Op("new", NoIndex, NoIndex, <<>>, <<>>)
    /\ phase = "update"

FramePush ==
    /\ phase = "update"
    /\ Len(textured_quads) < MaxQueued
    /\ \E q \in FewQuads : PushStep(q)
    /\ UNCHANGED phase

FrameRender == phase = "update" /\ RenderStep /\ phase' = "rendered"

FrameClear == phase = "rendered" /\ ClearStep /\ phase' = "update"

FrameNext == FramePush \/ FrameRender \/ FrameClear

FrameSpec == FrameInit /\ [][FrameNext]_vars

\* The first frame alone, with quads on three layers
SortPush ==
    /\ phase = "update"
    /\ Len(textured_quads) < MaxQueued
    /\ \E q \in SortQuads : PushStep(q)
    /\ UNCHANGED phase

SortRender == phase = "update" /\ RenderStep /\ phase' = "rendered"

SortClear == phase = "rendered" /\ ClearStep /\ phase' = "cleared"

SortNext == SortPush \/ SortRender \/ SortClear

SortSpec == FrameInit /\ [][SortNext]_vars

\* A frame in which render is called up to three times before clear
RenderPhases == <<"update", "rendered", "rendered twice", "rendered thrice">>

\* The number of renders since the last clear
RendersIn(p) == CHOOSE k \in 0..(Len(RenderPhases) - 1) : RenderPhases[k + 1] = p

RepeatPush ==
    /\ phase = "update"
    /\ Len(textured_quads) < MaxQueued
    /\ \E q \in FewQuads : PushStep(q)
    /\ UNCHANGED phase

RepeatRender ==
    /\ RendersIn(phase) < Len(RenderPhases) - 1
    /\ RenderStep
    /\ phase' = RenderPhases[RendersIn(phase) + 2]

RepeatClear == ClearStep /\ phase' = "update"

RepeatNext == RepeatPush \/ RepeatRender \/ RepeatClear

RepeatSpec == FrameInit /\ [][RepeatNext]_vars

\* ------------------------------------------------- the static scene, resized

\* GraphicsState with its public operations on the buckets and the surface
SceneInit ==
    /\ program = "scene"
    /\ TexturedPipelineNew
    /\ GraphicsStateNew(WindowSize)
    /\ AppNew
    /\ enc = NoEnc
    /\ camera_2d = NoCamera
    /\ panicked = FALSE
    /\ last = Op("new", NoIndex, NoIndex, <<>>, <<>>)
    /\ phase = "free"

SceneAddModel ==
    /\ Len(gs_models) < MaxModels
    /\ \E shape \in Shapes, max_instances \in Capacities : GsAddModelStep(shape, max_instances)

SceneAddInstance ==
    \E i \in 0..MaxModels, instance \in SceneInstances : GsAddInstanceStep(i, instance)

SceneResize == \E size \in Sizes : GsResizeStep(size[1], size[2])

SceneRender == \E acquired \in BOOLEAN : GsRenderStep(acquired)

SceneNext == SceneAddModel \/ SceneAddInstance \/ SceneResize \/ SceneRender

SceneSpec == SceneInit /\ [][SceneNext]_vars

\* ------------------------------------------------------- the debug buckets

DebugInit ==
    /\ program = "debug"
    /\ TexturedPipelineNew
    /\ GraphicsStateNew(WindowSize)
    /\ AppNew
    /\ enc = NoEnc
    /\ camera_2d = NoCamera
    /\ panicked = FALSE
    /\ last = Op("new", NoIndex, NoIndex, <<>>, <<>>)
    /\ phase = "free"

\* The calls explored: up to one past the capacity of the bucket
AddDebugSquare ==
    /\ debug_square.num_instances <= MAX_DEBUG_SQUARES
    /\ \E instance \in Instances2D, ends_process \in BOOLEAN :
           AddDebugSquareStep(instance, ends_process)

AddDebugTriangle ==
    /\ debug_triangle.num_instances <= MAX_DEBUG_TRIANGLES
    /\ \E instance \in Instances2D, ends_process \in BOOLEAN :
           AddDebugTriangleStep(instance, ends_process)

DebugRender == \E acquired \in BOOLEAN : GsRenderStep(acquired)

DebugNext == AddDebugSquare \/ AddDebugTriangle \/ DebugRender

DebugSpec == DebugInit /\ [][DebugNext]_vars

\* ------------------------------------------------------- the render pass

\* GraphicsState with model buckets and debug instances together
PassInit ==
    /\ program = "render_pass"
    /\ TexturedPipelineNew
    /\ GraphicsStateNew(WindowSize)
    /\ AppNew
    /\ enc = NoEnc
    /\ camera_2d = NoCamera
    /\ panicked = FALSE
    /\ last = Op("new", NoIndex, NoIndex, <<>>, <<>>)
    /\ phase = "free"

\* The debug instance passed where the order of the pass is explored
PassInstances2D == { Instance2D(Vec2(5, 5), Vec2(3, 3), 1) }

PassAddModel ==
    /\ Len(gs_models) < MaxModels
    /\ \E shape \in Shapes, max_instances \in Capacities \ {0} :
           GsAddModelStep(shape, max_instances)

PassAddInstance ==
    \E i \in 0..(Len(gs_models) - 1), instance \in SceneInstances :
        /\ ModelAt(gs_models, i).num_instances < ModelAt(gs_models, i).max_instances
        /\ GsAddInstanceStep(i, instance)

PassAddDebugSquare ==
    /\ debug_square.num_instances < MAX_DEBUG_SQUARES
    /\ \E instance \in PassInstances2D : AddDebugSquareStep(instance, FALSE)

PassAddDebugTriangle ==
    /\ debug_triangle.num_instances < MAX_DEBUG_TRIANGLES
    /\ \E instance \in PassInstances2D : AddDebugTriangleStep(instance, FALSE)

PassRender == \E acquired \in BOOLEAN : GsRenderStep(acquired)

PassNext ==
    PassAddModel \/ PassAddInstance \/ PassAddDebugSquare \/ PassAddDebugTriangle
        \/ PassRender

PassSpec == PassInit /\ [][PassNext]_vars

\* ---------------------------------------------------------- the application

\* AppState::update: the two debug entities of the frame
AppStateUpdate ==
    <<Call("push_debug_square", <<Vec2(50, 50), Vec2(30, 30)>>),
      Call("push_debug_triangle", <<Vec2(100, 100), Vec2(30, 30)>>)>>

\* GraphicsState::push_debug_square: the request joins those of the frame
PushDebugSquare(queue, position, scale) ==
    Append(queue, Call("push_debug_square", <<position, scale>>))

\* GraphicsState::push_debug_triangle: the request joins those of the frame
PushDebugTriangle(queue, position, scale) ==
    Append(queue, Call("push_debug_triangle", <<position, scale>>))

\* GraphicsState::clear_instances: no request is left
ClearInstances(queue) == <<>>

\* AppState::update on the requests held: the two debug entities are pushed
AppStateUpdateOf(queue) ==
    PushDebugTriangle(PushDebugSquare(queue, Vec2(50, 50), Vec2(30, 30)),
                      Vec2(100, 100), Vec2(30, 30))

\* AppState::render calling clear_instances whatever render returned
AppStateRenderAlwaysClears(ms, square, triangle, acquired, queue) ==
    LET r == GsRenderOf(ms, square, triangle, acquired) IN
    [ok |-> r.ok, draws |-> r.draws, debug_draws |-> r.debug_draws,
     requests |-> ClearInstances(queue),
     calls |-> <<Call("request_redraw", <<>>), Call("graphics_state.render", <<r.ok>>),
                 Call("clear_instances", <<>>)>>]

\* AppState::render requesting the redraw once the frame is complete
AppStateRenderRedrawLast(ms, square, triangle, acquired, queue) ==
    LET r == GsRenderOf(ms, square, triangle, acquired) IN
    [ok |-> r.ok, draws |-> r.draws, debug_draws |-> r.debug_draws,
     requests |-> IF r.ok THEN ClearInstances(queue) ELSE queue,
     calls |-> <<Call("graphics_state.render", <<r.ok>>)>>
                   \o (IF r.ok THEN <<Call("clear_instances", <<>>),
                                      Call("request_redraw", <<>>)>>
                        ELSE <<>>)]

\* AppState::render: request_redraw, then graphics_state.render()?, then
\* clear_instances; the `?` returns the Err before clear_instances
AppStateRender(ms, square, triangle, acquired, queue) ==
    LET r == GsRenderOf(ms, square, triangle, acquired) IN
    [ok |-> r.ok, draws |-> r.draws, debug_draws |-> r.debug_draws,
     requests |-> IF r.ok THEN ClearInstances(queue) ELSE queue,
     calls |-> <<Call("request_redraw", <<>>), Call("graphics_state.render", <<r.ok>>)>>
                   \o (IF r.ok THEN <<Call("clear_instances", <<>>)>> ELSE <<>>)]

\* The KeyboardInput arm exiting on any Escape event
KeyboardInputExitOnEscape(physical_key, pressed) ==
    IF physical_key.kind # "Code"
    THEN [exit |-> FALSE, calls |-> <<>>]
    ELSE IF physical_key.code = "Escape"
         THEN [exit |-> TRUE, calls |-> <<>>]
         ELSE [exit |-> FALSE,
               calls |-> <<Call("handle_key", <<physical_key.code, pressed>>)>>]

\* The KeyboardInput arm forwarding the key as pressed
KeyboardInputAlwaysPressed(physical_key, pressed) ==
    IF physical_key.kind # "Code"
    THEN [exit |-> FALSE, calls |-> <<>>]
    ELSE IF physical_key.code = "Escape" /\ pressed
         THEN [exit |-> TRUE, calls |-> <<>>]
         ELSE [exit |-> FALSE,
               calls |-> <<Call("handle_key", <<physical_key.code, TRUE>>)>>]

\* The KeyboardInput arm of window_event: it matches a physical key with a
\* code only; a press of Escape exits, every other key event goes to
\* camera_controller.handle_key
KeyboardInputOf(physical_key, pressed) ==
    IF physical_key.kind # "Code"
    THEN [exit |-> FALSE, calls |-> <<>>]
    ELSE IF physical_key.code = "Escape" /\ pressed
         THEN [exit |-> TRUE, calls |-> <<>>]
         ELSE [exit |-> FALSE,
               calls |-> <<Call("handle_key", <<physical_key.code, pressed>>)>>]

\* The window is created and its size known when resumed builds the state;
\* the variables of GraphicsState hold what GraphicsState::new gives them
\* from the start.
AppInit ==
    /\ program = "app"
    /\ TexturedPipelineNew
    /\ \E window_size \in Sizes : GraphicsStateNew(window_size)
    /\ AppNew
    /\ enc = NoEnc
    /\ camera_2d = NoCamera
    /\ panicked = FALSE
    /\ last = Op("new", NoIndex, NoIndex, <<>>, <<>>)
    /\ phase = "free"

\* The event loop delivers events until exit is requested or the process ends
Running == ~panicked /\ ~exit_requested

\* window_event matching the event before it looks at App.state, so that
\* CloseRequested exits without a state
IgnoredExceptClose(ev) ==
    /\ state = "None"
    /\ event' = ev
    /\ steps' = IF ev.kind = "CloseRequested" THEN <<Call("exit", <<>>)>> ELSE <<>>
    /\ exit_requested' = (ev.kind = "CloseRequested")
    /\ UNCHANGED <<state, requests, loop_vars, panicked, last, phase, program, tp_vars,
                   gs_vars, surface_vars, debug_vars, pure_vars>>

\* window_event while App.state is None: `None => return`
Ignored(ev) ==
    /\ state = "None"
    /\ event' = ev
    /\ steps' = <<>>
    /\ UNCHANGED <<state, exit_requested, requests, loop_vars, panicked, last, phase, program, tp_vars,
                   gs_vars, surface_vars, debug_vars, pure_vars>>

\* App::resumed with AppState::resumed: the triangle and the square bucket
\* with 8 instances each, and one instance of the square (its scale of 0.5
\* stands as 1 here)
Resumed ==
    /\ Running
    /\ state = "None"
    /\ state' = "Some"
    /\ steps' = <<>>
    /\ LET triangle == GsAddModelTo(gs_models, TriangleShape, 8)
           square   == GsAddModelTo(triangle.models, SquareShape, 8)
           instance == Instance(<<0, 0, 0>>, <<1, 1, 1>>, <<1, 0, 0, 0>>)
           r        == GsAddInstanceTo(square.models, square.model_index, instance)
       IN  /\ gs_models' = r.models
           /\ gs_calls' = gs_calls \o <<(<<>>), (<<instance>>)>>
           /\ panicked' = r.panicked
           /\ last' = Op("add_instance", square.model_index, NoIndex, r.writes, <<>>)
    /\ UNCHANGED <<exit_requested, event, requests, loop_vars, phase, program, tp_vars, surface_vars,
                   debug_vars, pure_vars>>

\* WindowEvent::CloseRequested
CloseRequested ==
    /\ Running
    /\ \/ Ignored(CloseRequestedEvent)
       \/ /\ state = "Some"
          /\ event' = CloseRequestedEvent
          /\ exit_requested' = TRUE
          /\ steps' = <<Call("exit", <<>>)>>
          /\ UNCHANGED <<state, requests, loop_vars, panicked, last, phase, program, tp_vars, gs_vars,
                         surface_vars, debug_vars, pure_vars>>

\* WindowEvent::Resized(size): state.resize(size.width, size.height)
Resized ==
    /\ Running
    /\ \E ev \in ResizedEvents :
        \/ Ignored(ev)
        \/ /\ state = "Some"
           /\ event' = ev
           /\ steps' = <<Call("resize", ev.size)>>
           /\ config' = GsResizeOf(config, ev.size[1], ev.size[2])
           /\ depth_texture' = [width |-> config'.width, height |-> config'.height]
           /\ last' = Op("resize", NoIndex, NoIndex, <<>>, <<>>)
           /\ debug_draws' = <<>>
           /\ UNCHANGED <<state, exit_requested, requests, loop_vars, panicked, phase, program, tp_vars,
                          gs_vars, camera_aspect, debug_square, debug_triangle, pure_vars>>

\* WindowEvent::RedrawRequested: state.update(); state.render().unwrap().
\* The unwrap of an Err ends the process.
RedrawRequested ==
    /\ Running
    /\ \/ Ignored(RedrawRequestedEvent)
       \/ /\ state = "Some"
          /\ event' = RedrawRequestedEvent
          /\ \E acquired \in BOOLEAN :
              LET r == AppStateRender(gs_models, debug_square, debug_triangle, acquired,
                                      AppStateUpdateOf(requests)) IN
              /\ steps' = <<Call("update", <<>>)>> \o AppStateUpdate
                              \o <<Call("render", <<>>)>> \o r.calls
              /\ requests' = r.requests
              /\ redraw_requested' = (\E c \in 1..Len(r.calls) : r.calls[c].call = "request_redraw")
              /\ frames' = (frames + 1) % FrameCycle
              /\ panicked' = ~r.ok
              /\ last' = Op(IF r.ok THEN "render" ELSE "render_failed",
                            NoIndex, NoIndex, <<>>, r.draws)
              /\ debug_draws' = r.debug_draws
          /\ UNCHANGED <<state, exit_requested, phase, program, tp_vars, gs_vars,
                         surface_vars, debug_square, debug_triangle, pure_vars>>

\* WindowEvent::KeyboardInput
KeyboardInput ==
    /\ Running
    /\ \E ev \in KeyboardInputEvents :
        \/ Ignored(ev)
        \/ /\ state = "Some"
           /\ event' = ev
           /\ exit_requested' = KeyboardInputOf(ev.physical_key, ev.pressed).exit
           /\ steps' = KeyboardInputOf(ev.physical_key, ev.pressed).calls
                           \o (IF exit_requested' THEN <<Call("exit", <<>>)>> ELSE <<>>)
           /\ UNCHANGED <<state, requests, loop_vars, panicked, last, phase, program, tp_vars, gs_vars,
                          surface_vars, debug_vars, pure_vars>>

\* Any other WindowEvent: `_ => ()`
OtherEvent ==
    /\ Running
    /\ \E ev \in FocusedEvents :
        \/ Ignored(ev)
        \/ /\ state = "Some"
           /\ event' = ev
           /\ steps' = <<>>
           /\ UNCHANGED <<state, exit_requested, requests, loop_vars, panicked, last, phase, program,
                          tp_vars, gs_vars, surface_vars, debug_vars, pure_vars>>

AppNext ==
    Resumed \/ CloseRequested \/ Resized \/ RedrawRequested \/ KeyboardInput \/ OtherEvent

AppSpec == AppInit /\ [][AppNext]_vars

\* The event loop serving a redraw request: a RedrawRequested event reaches
\* the handler while window.request_redraw() stands
RequestedRedraw == redraw_requested /\ state = "Some" /\ RedrawRequested

\* The application with an event loop that delivers the redraws requested
AppLoopSpec == AppSpec /\ WF_vars(RequestedRedraw)

\* AppState under a caller that goes on after render returned an Err:
\* update and render by turns, resize at any time

\* AppState::update
Update ==
    /\ ~panicked
    /\ state = "Some"
    /\ phase # "updated"
    /\ Len(requests) < MaxPending
    /\ phase' = "updated"
    /\ requests' = AppStateUpdateOf(requests)
    /\ steps' = <<Call("update", <<>>)>> \o AppStateUpdate
    /\ last' = Op("update", NoIndex, NoIndex, <<>>, <<>>)
    /\ debug_draws' = <<>>
    /\ UNCHANGED <<state, exit_requested, event, loop_vars, panicked, program, tp_vars,
                   gs_vars, surface_vars, debug_square, debug_triangle, pure_vars>>

\* AppState::render, its Result handled by the caller
RenderHandled ==
    /\ ~panicked
    /\ state = "Some"
    /\ phase = "updated"
    /\ \E acquired \in BOOLEAN :
        LET r == AppStateRender(gs_models, debug_square, debug_triangle, acquired, requests) IN
        /\ phase' = IF r.ok THEN "rendered" ELSE "render failed"
        /\ requests' = r.requests
        /\ steps' = <<Call("render", <<>>)>> \o r.calls
        /\ last' = Op(IF r.ok THEN "render" ELSE "render_failed",
                      NoIndex, NoIndex, <<>>, r.draws)
        /\ debug_draws' = r.debug_draws
        /\ redraw_requested' = (\E c \in 1..Len(r.calls) : r.calls[c].call = "request_redraw")
    /\ UNCHANGED <<state, exit_requested, event, frames, panicked, program, tp_vars, gs_vars,
                   surface_vars, debug_square, debug_triangle, pure_vars>>

\* AppState::resize
Resize ==
    /\ ~panicked
    /\ state = "Some"
    /\ \E size \in Sizes :
        /\ steps' = <<Call("resize", size)>>
        /\ config' = GsResizeOf(config, size[1], size[2])
        /\ depth_texture' = [width |-> config'.width, height |-> config'.height]
    /\ last' = Op("resize", NoIndex, NoIndex, <<>>, <<>>)
    /\ debug_draws' = <<>>
    /\ UNCHANGED <<state, exit_requested, event, requests, loop_vars, panicked, phase, program, tp_vars,
                   gs_vars, camera_aspect, debug_square, debug_triangle, pure_vars>>

AppStateNext == Resumed \/ Update \/ RenderHandled \/ Resize

AppStateSpec == AppInit /\ [][AppStateNext]_vars

\* ------------------------------------------------------------ the encoding

\* Coordinates and scales of the instances encoded
Coords == (0 - 1)..MaxCoord

Scales == 0..MaxCoord

\* The 2D instances encoded: TexturedInstance, the Instance of
\* graphics/debug.rs and Instance2D have the same three fields
EncInstances ==
    { TexturedInstance(Vec2(px, py), Vec2(sx, sy), rotation) :
          px \in Coords, py \in Coords, sx \in Scales, sy \in Scales, rotation \in 0..3 }

\* The 3D instances encoded: no rotation, or a half turn about z
EncInstances3 ==
    { Instance(<<px, py, pz>>, <<sx, sy, 2>>, rotation) :
          px \in Coords, py \in Coords, pz \in {0, 1}, sx \in Scales, sy \in Scales,
          rotation \in { <<1, 0, 0, 0>>, <<0, 0, 0, 1>> } }

\* The to_raw functions of the 2D instances
EncKinds == { "TexturedInstance", "debug::Instance", "Instance2D" }

EncInit ==
    /\ program = "to_raw"
    /\ TexturedPipelineNew
    /\ GraphicsStateNew(WindowSize)
    /\ AppNew
    /\ enc \in { [kind |-> k, instance |-> i, raw |-> <<>>] : k \in EncKinds, i \in EncInstances }
                \cup { [kind |-> "Instance", instance |-> i, raw |-> <<>>] : i \in EncInstances3 }
    /\ camera_2d = NoCamera
    /\ panicked = FALSE
    /\ last = Op("new", NoIndex, NoIndex, <<>>, <<>>)
    /\ phase = "free"

\* bytemuck::cast_slice(&[instance.to_raw()]) with the to_raw of the type
EncodeOf(kind, instance) ==
    CASE kind = "TexturedInstance" -> CastSlice(ToRaw(instance))
      [] kind = "debug::Instance"  -> CastSlice(DebugToRaw(instance))
      [] kind = "Instance2D"       -> CastSlice(Instance2DToRaw(instance))
      [] OTHER                     -> GsCastSlice(GsToRaw(instance))

\* to_raw of a 2D instance
ToRaw2D ==
    /\ enc.kind \in EncKinds
    /\ enc.raw = <<>>
    /\ enc' = [enc EXCEPT !.raw = EncodeOf(enc.kind, enc.instance)]
    /\ UNCHANGED <<panicked, last, phase, program, tp_vars, gs_vars, surface_vars,
                   debug_vars, app_vars, camera_2d>>

\* to_raw of a 3D instance
ToRaw3D ==
    /\ enc.kind = "Instance"
    /\ enc.raw = <<>>
    /\ enc' = [enc EXCEPT !.raw = EncodeOf(enc.kind, enc.instance)]
    /\ UNCHANGED <<panicked, last, phase, program, tp_vars, gs_vars, surface_vars,
                   debug_vars, app_vars, camera_2d>>

EncNext == ToRaw2D \/ ToRaw3D

EncSpec == EncInit /\ [][EncNext]_vars

\* ------------------------------------------------------- the 2D projection

\* 2 to the power k
RECURSIVE Pow2(_)
Pow2(k) == IF k = 0 THEN 1 ELSE 2 * Pow2(k - 1)

\* An f32 value is the pair <<m, k>> standing for m / 2^k.
F32Zero == <<0, 0>>

F32One == <<1, 0>>

F32MinusOne == <<0 - 1, 0>>

\* The k for which n * 2^k / d has 24 significant bits, the precision of f32
RECURSIVE F32Exponent(_, _, _)
F32Exponent(n, d, k) == IF n * Pow2(k) >= d * Pow2(23) THEN k ELSE F32Exponent(n, d, k + 1)

\* num / den rounded to the nearest integer, a tie to the even one
RoundHalfEven(num, den) ==
    LET q == num \div den
        r == num % den
    IN  IF 2 * r < den THEN q
        ELSE IF 2 * r > den THEN q + 1
        ELSE IF q % 2 = 0 THEN q ELSE q + 1

\* n as f32 / d as f32 for whole numbers n, d > 0: the quotient rounded
\* to 24 significant bits, as the f32 division does
F32Div(n, d) ==
    LET k == F32Exponent(n, d, 0)
        m == RoundHalfEven(n * Pow2(k), d)
    IN  IF m = Pow2(24) THEN <<Pow2(23), k - 1>> ELSE <<m, k>>

\* Camera2DUniform::new with 1 / width and 1 / height
Camera2DUniformNewUnit(width, height) ==
    <<(<<F32Div(1, width), F32Zero, F32Zero, F32Zero>>),
      (<<F32Zero, F32Div(1, height), F32Zero, F32Zero>>),
      (<<F32Zero, F32Zero, F32Zero, F32Zero>>),
      (<<F32MinusOne, F32MinusOne, F32Zero, F32One>>)>>

\* Camera2DUniform::new(width, height): the columns of the projection
Camera2DUniformNew(width, height) ==
    <<(<<F32Div(2, width), F32Zero, F32Zero, F32Zero>>),
      (<<F32Zero, F32Div(2, height), F32Zero, F32Zero>>),
      (<<F32Zero, F32Zero, F32Zero, F32Zero>>),
      (<<F32MinusOne, F32MinusOne, F32Zero, F32One>>)>>

\* The widths and heights explored (whole numbers, as a surface has them)
Dims == 1..MaxDim

CameraInit ==
    /\ program = "camera_2d"
    /\ TexturedPipelineNew
    /\ GraphicsStateNew(WindowSize)
    /\ AppNew
    /\ enc = NoEnc
    /\ camera_2d = NoCamera
    /\ panicked = FALSE
    /\ last = Op("new", NoIndex, NoIndex, <<>>, <<>>)
    /\ phase = "free"

\* Camera2DUniform::new(width, height), for the first time or anew with
\* other dimensions
Camera2DNew ==
    /\ \E width \in Dims, height \in Dims :
           camera_2d' = [width |-> width, height |-> height,
                         projection |-> Camera2DUniformNew(width, height)]
    /\ UNCHANGED <<panicked, last, phase, program, tp_vars, gs_vars, surface_vars,
                   debug_vars, app_vars, enc>>

CameraNext == Camera2DNew

CameraSpec == CameraInit /\ [][CameraNext]_vars

\* ------------------------------------------------------------------ claims

\* The quad bucket of the pipeline
Quad == ModelAt(models, quad_index)

\* C1: in every reachable state every bucket's live count is at most its
\* capacity, in the textured pipeline and in GraphicsState.
C1_LiveCountWithinCapacity ==
    /\ \A i \in 1..Len(models) : models[i].num_instances <= models[i].max_instances
    /\ \A i \in 1..Len(gs_models) :
           gs_models[i].num_instances <= gs_models[i].max_instances

\* C1 witness: an append was attempted on the full quad bucket.
C1_Witness ==
    /\ panicked
    /\ last.op = "render"
    /\ Quad.num_instances = Quad.max_instances
    /\ Len(calls[quad_index + 1]) > Quad.max_instances

\* C2 as claimed: an append beyond the capacity is a recoverable condition:
\* the process goes on and the live count stays at the capacity.
C2_OverflowIsRecoverable ==
    Len(calls[quad_index + 1]) > Quad.max_instances
        => ~panicked /\ Quad.num_instances = Quad.max_instances

\* C3: add_instance on a full bucket fails its assertion with no write and
\* no increment; add_instance below the capacity does not fail.  For render,
\* whose loop calls add_instance once per queued quad: it fails exactly when
\* the queue does not fit, after one write per quad that did fit.
C3_AssertionExactlyWhenFull ==
    [][ /\ (last'.op = "add_instance" /\ HasModel(gs_models, last'.index)) =>
              LET model == ModelAt(gs_models, last'.index) IN
              IF model.num_instances = model.max_instances
              THEN panicked' /\ gs_models' = gs_models /\ last'.writes = <<>>
              ELSE ~panicked'
                   /\ ModelAt(gs_models', last'.index).num_instances
                          = model.num_instances + 1
        /\ last'.op = "render" =>
              LET room == Quad.max_instances - Quad.num_instances
                  n    == Len(textured_quads)
              IN  /\ panicked' = (n > room)
                  /\ Len(last'.writes) = IF n > room THEN room ELSE n
                  /\ ModelAt(models', quad_index).num_instances
                         = Quad.num_instances + (IF n > room THEN room ELSE n)
      ]_vars

\* C3 witness: add_instance has failed on a full bucket of capacity 2.
C3_Witness ==
    /\ panicked
    /\ last.op = "add_instance"
    /\ HasModel(gs_models, last.index)
    /\ ModelAt(gs_models, last.index).num_instances = 2
    /\ ModelAt(gs_models, last.index).max_instances = 2

\* C4: after k <= max_instances add_instance calls since the live count was
\* 0, the live count is k and slot N holds the encoding of the N-th call's
\* instance; each call wrote at byte offset N * size_of(InstanceRaw).
C4_SlotNHoldsNthAppend ==
    /\ \A i \in 1..Len(gs_models) :
           Len(gs_calls[i]) <= gs_models[i].max_instances =>
               /\ gs_models[i].num_instances = Len(gs_calls[i])
               /\ \A n \in 0..(Len(gs_calls[i]) - 1) :
                      GsSlot(gs_models[i].instance_buffer, n)
                          = GsCastSlice(GsToRaw(gs_calls[i][n + 1]))
    /\ \A i \in 1..Len(models) :
           Len(calls[i]) <= models[i].max_instances =>
               /\ models[i].num_instances = Len(calls[i])
               /\ \A n \in 0..(Len(calls[i]) - 1) :
                      Slot(models[i].instance_buffer, n)
                          = CastSlice(ToRaw(calls[i][n + 1]))
    /\ (last.op = "add_instance" /\ last.writes # <<>>) =>
           last.writes[1].offset
               = (ModelAt(gs_models, last.index).num_instances - 1) * GsSizeOfInstanceRaw
    /\ (last.op = "render" /\ program = "textured_pipeline") =>
           \A w \in 1..Len(last.writes) :
               last.writes[w].offset
                   = (Quad.num_instances - Len(last.writes) + w - 1) * SizeOfInstanceRaw

\* C4 witness: two different instances were appended to a bucket.
C4_Witness ==
    /\ last.op = "add_instance"
    /\ HasModel(gs_models, last.index)
    /\ Len(gs_calls[last.index + 1]) = 2
    /\ gs_calls[last.index + 1][1] # gs_calls[last.index + 1][2]
    /\ ModelAt(gs_models, last.index).num_instances = 2

\* The layers of a sequence of quads
LayersOf(quads) == {quads[i].layer : i \in 1..Len(quads)}

\* The quads of a sequence layer after layer, lowest layer first, each
\* layer's quads in their order in the sequence
RECURSIVE LayerByLayer(_, _)
LayerByLayer(quads, layers) ==
    IF layers = {} THEN <<>>
    ELSE LET lowest == CHOOSE l \in layers : \A k \in layers : l <= k
         IN  SelectSeq(quads, LAMBDA q : q.layer = lowest)
                 \o LayerByLayer(quads, layers \ {lowest})

\* How often a quad occurs in a sequence
Occurrences(quads, quad) == Cardinality({i \in 1..Len(quads) : quads[i] = quad})

\* One sequence is a permutation of the other
IsPermutation(a, b) ==
    /\ Len(a) = Len(b)
    /\ \A i \in 1..Len(a) : Occurrences(a, a[i]) = Occurrences(b, a[i])

\* The words of the matrix of an unrotated quad: the dimensions on the
\* diagonal, the position in the last column
QuadWords(quad) ==
    <<quad.dimensions[1], 0, 0,  0, quad.dimensions[2], 0,
      quad.position[1], quad.position[2], 1>>

\* The smaller of two numbers
Min(a, b) == IF a <= b THEN a ELSE b

C6_SlotsHoldSortedQuads ==
    (phase = "rendered" /\ ~panicked) =>
        /\ Quad.num_instances = Len(textured_quads)
        /\ \A i \in 0..(Len(textured_quads) - 1) :
               Slot(Quad.instance_buffer, i) = QuadWords(textured_quads[i + 1])
        /\ \A i \in 1..(Len(textured_quads) - 1) :
               textured_quads[i].layer <= textured_quads[i + 1].layer

\* C6 witness: two quads pushed against their layer order were uploaded.
C6_Witness ==
    /\ phase = "rendered"
    /\ ~panicked
    /\ Len(pushed) = 2
    /\ pushed[1].layer > pushed[2].layer
    /\ Slot(Quad.instance_buffer, 0) = QuadWords(pushed[2])
    /\ Slot(Quad.instance_buffer, 1) = QuadWords(pushed[1])

\* C7: in the frame loop the quad draw call of a frame covers as many
\* instances as quads were pushed in that frame, and the slots it covers
\* hold that frame's quads only.
C7_FrameDrawsItsOwnQuads ==
    (phase = "rendered" /\ ~panicked) =>
        /\ Len(pushed) <= MAX_QUADS
        /\ last.draws[quad_index + 1].instances = Len(pushed)
        /\ Len(last.writes) = Len(pushed)
        /\ IsPermutation(textured_quads, pushed)
        /\ \A i \in 0..(last.draws[quad_index + 1].instances - 1) :
               Slot(Quad.instance_buffer, i) = QuadWords(textured_quads[i + 1])

\* A slot at or past the live count still holds an earlier frame's quad
StaleSlot ==
    \E i \in Quad.num_instances..(Quad.max_instances - 1) :
        Slot(Quad.instance_buffer, i) # CreateBuffer(SizeOfInstanceRaw)

\* C7 witness: a later frame drew its one quad while the buffer still held
\* quads of an earlier frame.
C7_Witness ==
    /\ phase = "rendered"
    /\ ~panicked
    /\ cycled
    /\ Len(pushed) = 1
    /\ last.draws[quad_index + 1].instances = 1
    /\ StaleSlot

\* C8 as claimed: after render and clear the live count is 0 and the queue
\* empty, and a following frame without pushes produces no draw call.
C8_EmptyFrameNoDrawCall ==
    /\ last.op = "clear" => Quad.num_instances = 0 /\ textured_quads = <<>>
    /\ (cycled /\ phase = "rendered" /\ pushed = <<>>) => Len(last.draws) = 0

\* C8 amended: after render and clear the live count is 0 and the queue
\* empty, and a following frame without pushes writes nothing and issues
\* one draw call per bucket, each over the empty instance range 0..0.
C8_EmptyFrameDrawsNoInstance ==
    /\ last.op = "clear" => Quad.num_instances = 0 /\ textured_quads = <<>>
    /\ (cycled /\ phase = "rendered" /\ pushed = <<>>) =>
           /\ ~panicked
           /\ last.writes = <<>>
           /\ Len(last.draws) = Len(models)
           /\ \A d \in 1..Len(last.draws) : last.draws[d].instances = 0

\* C8 witness: an empty frame was rendered after a frame that drew quads.
C8_Witness ==
    /\ cycled
    /\ phase = "rendered"
    /\ pushed = <<>>
    /\ StaleSlot

\* The draw calls are one per bucket, in bucket order, each over the
\* bucket's indices and its live instances
OneDrawPerBucket(draws, ms) ==
    /\ Len(draws) = Len(ms)
    /\ \A i \in 1..Len(ms) :
           /\ draws[i].model = i - 1
           /\ draws[i].indices = ms[i].num_indices
           /\ draws[i].instances = ms[i].num_instances

\* The buckets of the renderer this run is about
Buckets == IF program = "textured_pipeline" THEN models ELSE gs_models

\* C9 as claimed: each call to render issues one draw call per bucket.
C9_EveryRenderDrawsEachBucket ==
    last.op \in {"render", "render_failed"} => OneDrawPerBucket(last.draws, Buckets)

\* C9 amended: each call to render that runs to its end (the surface image
\* was acquired, no assertion failed) issues exactly one indexed draw call
\* per bucket, over 0..num_indices and 0..num_instances of the bucket after
\* that call's uploads; a call that does not issues none.
C9_CompletedRenderDrawsEachBucket ==
    /\ (last.op = "render" /\ ~panicked) => OneDrawPerBucket(last.draws, Buckets)
    /\ (last.op = "render_failed" \/ (last.op = "render" /\ panicked)) => last.draws = <<>>

\* C9 witness: a render drew the quad bucket over the instances it had
\* just uploaded.
C9_Witness ==
    /\ last.op = "render"
    /\ ~panicked
    /\ program = "textured_pipeline"
    /\ Len(last.writes) = 2
    /\ last.draws = <<[model |-> 0, indices |-> 6, instances |-> Quad.num_instances]>>
    /\ Quad.num_instances >= 2

\* C10: push_textured_quad appends the quad at the end of the queue, writes
\* to no buffer and leaves the buckets and the queued quads as they were.
C10_PushOnlyAppends ==
    [][ last'.op = "push_textured_quad" =>
            /\ models' = models
            /\ gs_models' = gs_models
            /\ last'.writes = <<>>
            /\ last'.draws = <<>>
            /\ Len(textured_quads') = Len(textured_quads) + 1
            /\ SubSeq(textured_quads', 1, Len(textured_quads)) = textured_quads
            /\ textured_quads'[Len(textured_quads')] = pushed'[Len(pushed')]
      ]_vars

\* C10 witness: a quad was pushed behind a different one while the quad
\* bucket held instances.
C10_Witness ==
    /\ last.op = "push_textured_quad"
    /\ Len(textured_quads) = 2
    /\ textured_quads[1] # textured_quads[2]
    /\ Quad.num_instances > 0

\* The update, render and clear calls among the calls of a handler, in order
FrameCalls ==
    SelectSeq(steps, LAMBDA c : c.call \in {"update", "graphics_state.render", "clear_instances"})

\* The handler of a RedrawRequested event has run on the application state
RedrawHandled == state = "Some" /\ event = RedrawRequestedEvent

\* C11 as claimed: when acquiring the surface image fails during a redraw,
\* the frame is skipped and the process goes on, so that the next redraw
\* request can run a frame.
C11_FailedAcquireSkipsFrame ==
    (RedrawHandled /\ last.op = "render_failed") => ~panicked

\* C12 as claimed: a RedrawRequested event handled while the application
\* state exists runs exactly one update, then exactly one render, then
\* exactly one clear.
C12_UpdateRenderClearPerRedraw ==
    RedrawHandled =>
        /\ Len(FrameCalls) = 3
        /\ FrameCalls[1].call = "update"
        /\ FrameCalls[2].call = "graphics_state.render"
        /\ FrameCalls[3].call = "clear_instances"

\* The size in bytes of a buffer
SizeOf(buffer) == Len(buffer) * F32Bytes

\* C13 as claimed: the live counts of the debug square and debug triangle
\* buckets never exceed their capacities, and no instance write of
\* add_debug_square or add_debug_triangle starts at or past the end of the
\* instance buffer.
C13_DebugCountWithinCapacity ==
    /\ debug_square.num_instances <= MAX_DEBUG_SQUARES
    /\ debug_triangle.num_instances <= MAX_DEBUG_TRIANGLES
    /\ last.op = "add_debug_square" =>
           \A w \in 1..Len(last.writes) :
               last.writes[w].offset < SizeOf(debug_square.instance_buffer)
    /\ last.op = "add_debug_triangle" =>
           \A w \in 1..Len(last.writes) :
               last.writes[w].offset < SizeOf(debug_triangle.instance_buffer)

\* C14: across add_model, add_instance, resize and render no bucket of
\* GraphicsState is removed and no bucket's live count decreases; resize
\* and render leave the buckets as they were.
C14_LiveCountNeverDecreases ==
    [][ /\ Len(gs_models') >= Len(gs_models)
        /\ \A i \in 1..Len(gs_models) :
               gs_models'[i].num_instances >= gs_models[i].num_instances
        /\ last'.op \in {"render", "render_failed", "resize"} => gs_models' = gs_models
      ]_vars

\* C14 witness: a render after a resize, with a bucket that holds two
\* instances.
C14_Witness ==
    /\ program = "scene"
    /\ last.op = "render"
    /\ config # [width |-> WindowSize[1], height |-> WindowSize[2]]
    /\ \E i \in 1..Len(gs_models) : gs_models[i].num_instances = 2

\* C15: no operation of the pipeline or of GraphicsState changes the
\* capacity of a bucket or removes a bucket; clear zeroes the quad bucket's
\* live count and leaves the bucket's buffer, capacity and shape as they were.
C15_CapacityFixedClearKeepsBuffers ==
    [][ /\ Len(models') = Len(models)
        /\ \A i \in 1..Len(models) : models'[i].max_instances = models[i].max_instances
        /\ Len(gs_models') >= Len(gs_models)
        /\ \A i \in 1..Len(gs_models) :
               gs_models'[i].max_instances = gs_models[i].max_instances
        /\ last'.op = "clear" =>
               /\ ModelAt(models', quad_index).num_instances = 0
               /\ models' = [models EXCEPT ![quad_index + 1].num_instances = 0]
      ]_vars

\* C15 witness: the quad bucket was cleared while its buffer held two
\* uploaded quads, which it still holds.
C15_Witness ==
    /\ last.op = "clear"
    /\ Quad.num_instances = 0
    /\ Quad.max_instances = MAX_QUADS
    /\ Slot(Quad.instance_buffer, 0) # CreateBuffer(SizeOfInstanceRaw)
    /\ Slot(Quad.instance_buffer, 1) # CreateBuffer(SizeOfInstanceRaw)

\* C16 as claimed: after resize(width, height) the surface configuration
\* has that width and height, and the camera's aspect ratio is that of the
\* new width and height.
C16_ResizeUpdatesSurfaceAndCamera ==
    (state = "Some" /\ event.kind = "Resized") =>
        /\ config = [width |-> event.size[1], height |-> event.size[2]]
        /\ camera_aspect = Ratio(config.width, config.height)

\* An event is a press of the Escape key
EscapePress(ev) ==
    /\ ev.kind = "KeyboardInput"
    /\ ev.physical_key = [kind |-> "Code", code |-> "Escape"]
    /\ ev.pressed

\* C17: once the application state exists, the handler of an event requests
\* exit exactly when the event is CloseRequested or a press of Escape.
C17_ExitOnCloseOrEscapeOnly ==
    [][ state = "Some" =>
            ((exit_requested' /\ ~exit_requested)
                <=> (event' = CloseRequestedEvent \/ EscapePress(event')))
      ]_vars

\* C17 witness: a press of Escape was handled on the application state and
\* has requested exit.
C17_Witness ==
    /\ state = "Some"
    /\ exit_requested
    /\ EscapePress(event)

\* C18: the handler of a keyboard event on the application state calls
\* handle_key with the key code and the pressed flag when the key has a
\* code and the event is not a press of Escape, and makes no such call
\* else; it changes no bucket and no buffer and runs no update or render.
C18_KeysForwardedToCameraController ==
    [][ (state = "Some" /\ event'.kind = "KeyboardInput") =>
            /\ IF event'.physical_key.kind = "Code" /\ ~EscapePress(event')
               THEN steps' = <<Call("handle_key",
                                    <<event'.physical_key.code, event'.pressed>>)>>
               ELSE \A c \in 1..Len(steps') : steps'[c].call # "handle_key"
            /\ \A c \in 1..Len(steps') :
                   steps'[c].call \notin {"update", "render", "graphics_state.render"}
            /\ gs_models' = gs_models
            /\ models' = models
            /\ debug_square' = debug_square
            /\ debug_triangle' = debug_triangle
            /\ last' = last
      ]_vars

\* C18 witness: the release of a key other than Escape was forwarded.
C18_Witness ==
    /\ state = "Some"
    /\ event.kind = "KeyboardInput"
    /\ event.physical_key.code = "KeyW"
    /\ ~event.pressed
    /\ steps = <<Call("handle_key", <<"KeyW", FALSE>>)>>

\* The words of translation * rotation * scale of a 2D instance, written out
TRS(instance) ==
    LET c == Cos(instance.rotation)
        n == Sin(instance.rotation)
    IN  <<instance.scale[1] * c, instance.scale[1] * n, 0,
          0 - instance.scale[2] * n, instance.scale[2] * c, 0,
          instance.position[1], instance.position[2], 1>>

\* C19: to_raw gives translation * rotation * scale; for no rotation the
\* scale is on the diagonal and the translation is the position itself, in
\* 2D and in 3D.  The encoding is a function of position, scale and
\* rotation alone.
C19_ToRawIsTranslationRotationScale ==
    enc.raw # <<>> =>
        /\ enc.kind \in EncKinds => enc.raw = TRS(enc.instance)
        /\ (enc.kind \in EncKinds /\ enc.instance.rotation = 0) =>
               enc.raw = <<enc.instance.scale[1], 0, 0,
                           0, enc.instance.scale[2], 0,
                           enc.instance.position[1], enc.instance.position[2], 1>>
        /\ (enc.kind = "Instance" /\ enc.instance.rotation = <<1, 0, 0, 0>>) =>
               enc.raw = <<enc.instance.scale[1], 0, 0, 0,
                           0, enc.instance.scale[2], 0, 0,
                           0, 0, enc.instance.scale[3], 0,
                           enc.instance.position[1], enc.instance.position[2],
                           enc.instance.position[3], 1>>

\* C19 witness: an unrotated instance with different scales on the two axes
\* and a position off the origin was encoded by TexturedInstance::to_raw.
C19_Witness ==
    /\ enc.kind = "TexturedInstance"
    /\ enc.raw # <<>>
    /\ enc.instance.rotation = 0
    /\ enc.instance.scale = Vec2(2, 1)
    /\ enc.instance.position = Vec2(1, 2)

\* The translation component and the diagonal of a 3x3 encoding
DecodePosition(raw) == Vec2(raw[7], raw[8])

DecodeScale(raw) == Vec2(raw[1], raw[5])

\* C20: for an instance without rotation the translation component and the
\* diagonal of its encoding are its position and its scale, and no other
\* unrotated instance with another position or scale has the same encoding.
C20_RoundTripWithoutRotation ==
    (enc.raw # <<>> /\ enc.kind \in EncKinds /\ enc.instance.rotation = 0) =>
        /\ DecodePosition(enc.raw) = enc.instance.position
        /\ DecodeScale(enc.raw) = enc.instance.scale
        /\ \A other \in EncInstances :
               (other.rotation = 0 /\ EncodeOf(enc.kind, other) = enc.raw) =>
                   other.position = enc.instance.position /\ other.scale = enc.instance.scale

\* C20 witness: an unrotated Instance2D with a negative coordinate and
\* different scales on the two axes was encoded.
C20_Witness ==
    /\ enc.kind = "Instance2D"
    /\ enc.raw # <<>>
    /\ enc.instance.rotation = 0
    /\ enc.instance.position = Vec2(0 - 1, 2)
    /\ enc.instance.scale = Vec2(1, 2)

\* The sum of two values <<m, k>>, each standing for m / 2^k
DyadicSum(a, b) ==
    LET k == IF a[2] >= b[2] THEN a[2] ELSE b[2]
    IN  <<a[1] * Pow2(k - a[2]) + b[1] * Pow2(k - b[2]), k>>

\* The product of an f32 value and half a whole number
TimesHalves(a, halves) == <<a[1] * halves, a[2] + 1>>

\* The clip-space x and y the projection gives the point (x, y, 0, 1), with
\* x and y in halves: row r of the matrix times the point, without rounding
Project(projection, x_halves, y_halves) ==
    [r \in 1..2 |->
        DyadicSum(DyadicSum(TimesHalves(projection[1][r], x_halves),
                            TimesHalves(projection[2][r], y_halves)),
                  projection[4][r])]

\* A value <<m, k>> is the whole number n
IsWhole(v, n) == v[1] = n * Pow2(v[2])

\* A value <<m, k>> is within 2^-23 of the whole number n
IsNear(v, n) ==
    LET d == v[1] - n * Pow2(v[2])
    IN  v[2] >= 23 /\ d <= Pow2(v[2] - 23) /\ 0 - d <= Pow2(v[2] - 23)

\* A whole number is a power of two
IsPow2(n) == \E k \in 0..MaxDim : n = Pow2(k)

\* A Camera2DUniform has been built
CameraBuilt == camera_2d.projection # <<>>

\* C21 as claimed: the projection built for a width and a height maps
\* (width/2, height/2) to (0, 0), (0, 0) to (-1, -1) and (width, height) to
\* (1, 1).
C21_ProjectionMapsCentreToOrigin ==
    CameraBuilt =>
        LET centre == Project(camera_2d.projection, camera_2d.width, camera_2d.height)
            origin == Project(camera_2d.projection, 0, 0)
            corner == Project(camera_2d.projection, 2 * camera_2d.width, 2 * camera_2d.height)
        IN  /\ IsWhole(centre[1], 0) /\ IsWhole(centre[2], 0)
            /\ IsWhole(origin[1], 0 - 1) /\ IsWhole(origin[2], 0 - 1)
            /\ IsWhole(corner[1], 1) /\ IsWhole(corner[2], 1)

\* C21 amended: the projection maps (0, 0) to (-1, -1); it maps
\* (width/2, height/2) to within 2^-23 of (0, 0) and (width, height) to
\* within 2^-23 of (1, 1), and to these exactly in each coordinate whose
\* dimension is a power of two, where 2 / dimension is an f32 value.
C21_ProjectionMapsCentreNearOrigin ==
    CameraBuilt =>
        LET centre == Project(camera_2d.projection, camera_2d.width, camera_2d.height)
            origin == Project(camera_2d.projection, 0, 0)
            corner == Project(camera_2d.projection, 2 * camera_2d.width, 2 * camera_2d.height)
        IN  /\ IsWhole(origin[1], 0 - 1) /\ IsWhole(origin[2], 0 - 1)
            /\ IsNear(centre[1], 0) /\ IsNear(centre[2], 0)
            /\ IsNear(corner[1], 1) /\ IsNear(corner[2], 1)
            /\ IsPow2(camera_2d.width) => IsWhole(centre[1], 0) /\ IsWhole(corner[1], 1)
            /\ IsPow2(camera_2d.height) => IsWhole(centre[2], 0) /\ IsWhole(corner[2], 1)

\* C21 witness: a projection was built for the width 3, for which 2 / 3 is
\* rounded, and the height 4, for which 2 / 4 is exact.
C21_Witness ==
    /\ CameraBuilt
    /\ camera_2d.width = 3
    /\ camera_2d.height = 4
    /\ ~IsWhole(Project(camera_2d.projection, 3, 4)[1], 0)
    /\ IsWhole(Project(camera_2d.projection, 3, 4)[2], 0)

\* C22: between two clears every slot below the quad's live count was
\* written by an add_instance after the earlier clear: the count rises only
\* by render, which writes each slot the count passes, falls only by clear,
\* to 0, and the slots below it keep what they were given; so the slots
\* hold the instances passed since the clear, and the draw over
\* 0..num_instances reads those slots only.
C22_DrawReadsOnlyWrittenSlots ==
    /\ [](program = "textured_pipeline" =>
            /\ Quad.num_instances <= Len(calls[quad_index + 1])
            /\ \A n \in 0..(Quad.num_instances - 1) :
                   Slot(Quad.instance_buffer, n)
                       = CastSlice(ToRaw(calls[quad_index + 1][n + 1]))
            /\ (last.op = "render" /\ ~panicked) =>
                   last.draws[quad_index + 1].instances = Quad.num_instances)
    /\ [][program = "textured_pipeline" =>
            LET before == Quad.num_instances
                after  == ModelAt(models', quad_index).num_instances
            IN  /\ after > before =>
                       /\ last'.op = "render"
                       /\ \A n \in before..(after - 1) :
                              \E w \in 1..Len(last'.writes) :
                                  /\ last'.writes[w].model = quad_index
                                  /\ last'.writes[w].offset = n * SizeOfInstanceRaw
                                  /\ Len(last'.writes[w].data) = InstanceRawWords
                       /\ \A n \in 0..(before - 1) :
                              Slot(ModelAt(models', quad_index).instance_buffer, n)
                                  = Slot(Quad.instance_buffer, n)
                /\ after < before => last'.op = "clear" /\ after = 0
                /\ last'.op = "clear" => after = 0 /\ calls'[quad_index + 1] = <<>>
      ]_vars

\* C22 witness: after a clear, a render drew one quad, written by it to slot
\* 0, while slot 1 still held a quad written before the clear.
C22_Witness ==
    /\ program = "textured_pipeline"
    /\ last.op = "render"
    /\ ~panicked
    /\ cycled
    /\ Len(last.writes) = 1
    /\ last.writes[1].offset = 0
    /\ last.draws[quad_index + 1].instances = 1
    /\ Slot(Quad.instance_buffer, 1) # CreateBuffer(SizeOfInstanceRaw)
    /\ Slot(Quad.instance_buffer, 1) # Slot(Quad.instance_buffer, 0)

\* C23: render is not idempotent: after k renders without a clear between
\* them, with n quads queued, the quad's live count is k * n as long as that
\* fits MAX_QUADS (so a second render of a non-empty queue changes it);
\* once k * n exceeds MAX_QUADS the assertion of add_instance has failed,
\* with the live count at MAX_QUADS.
C23_RepeatedRenderAccumulates ==
    LET k == RendersIn(phase)
        n == Len(textured_quads)
    IN  IF k * n <= MAX_QUADS
        THEN ~panicked /\ Quad.num_instances = k * n
        ELSE panicked /\ Quad.num_instances = MAX_QUADS

\* C23 witness: two renders of a queue of two quads left a live count of 4.
C23_Witness ==
    /\ phase = "rendered twice"
    /\ Len(textured_quads) = 2
    /\ ~panicked
    /\ Quad.num_instances = 4
    /\ last.op = "render"
    /\ Len(last.writes) = 2

\* C24: when graphics_state.render() returns an error, AppState::render
\* returns it after request_redraw and without clear_instances, so the
\* requests of the frame's update stay; the next update adds its own to
\* them.  A render that succeeds leaves none.
C24_FailedRenderKeepsRequests ==
    [][ /\ (phase = "updated" /\ phase' = "render failed") =>
              /\ requests' = requests
              /\ SubSeq(requests, Len(requests) - 1, Len(requests)) = AppStateUpdate
              /\ steps' = <<Call("render", <<>>), Call("request_redraw", <<>>),
                            Call("graphics_state.render", <<FALSE>>)>>
        /\ (phase = "updated" /\ phase' = "rendered") =>
              /\ requests' = <<>>
              /\ steps'[Len(steps')] = Call("clear_instances", <<>>)
        /\ (phase = "render failed" /\ phase' = "updated") =>
              /\ requests # <<>>
              /\ requests' = requests \o AppStateUpdate
      ]_vars

\* C24 witness: the update after a failed render found the two requests of
\* the frame before and added its own two.
C24_Witness ==
    /\ phase = "updated"
    /\ last.op = "update"
    /\ requests = AppStateUpdate \o AppStateUpdate

\* C25: a window event delivered while App.state is None is ignored: its
\* handler makes no call and changes nothing, whatever the event, a
\* CloseRequested and a press of Escape included; before the state exists no
\* exit has been requested and GraphicsState is as it was built.
C25_EventsIgnoredWithoutState ==
    /\ [](state = "None" =>
            ~exit_requested /\ ~panicked /\ steps = <<>> /\ gs_models = <<>>
                /\ requests = <<>>)
    /\ [][ (state = "None" /\ state' = "None") =>
              /\ event' \in {CloseRequestedEvent, RedrawRequestedEvent}
                     \cup ResizedEvents \cup KeyboardInputEvents \cup FocusedEvents
              /\ steps' = <<>>
              /\ UNCHANGED <<exit_requested, requests, loop_vars, panicked, last, phase, program,
                             tp_vars, gs_vars, surface_vars, debug_vars, pure_vars>>
      ]_vars

\* C25 witness: a press of Escape was delivered before the state existed and
\* nothing was asked of the event loop.
C25_Witness ==
    /\ state = "None"
    /\ EscapePress(event)
    /\ ~exit_requested
    /\ steps = <<>>

\* The position of the first call of a name among the calls of a handler,
\* 0 when there is none
FirstCall(cs, name) ==
    IF \E c \in 1..Len(cs) : cs[c].call = name
    THEN CHOOSE c \in 1..Len(cs) :
             cs[c].call = name /\ \A b \in 1..(c - 1) : cs[b].call # name
    ELSE 0

\* C26: the handler of a RedrawRequested event on the application state
\* calls request_redraw before graphics_state.render, whether the render
\* succeeds or fails, so a redraw request stands after every frame; and
\* with the redraws requested being delivered, every frame is followed by
\* another unless rendering has failed or exit was requested.
C26_RedrawRequestedEveryFrame ==
    /\ [][ (state = "Some" /\ event' = RedrawRequestedEvent /\ frames' # frames) =>
              /\ FirstCall(steps', "request_redraw") > 0
              /\ FirstCall(steps', "request_redraw") < FirstCall(steps', "graphics_state.render")
              /\ redraw_requested'
      ]_vars
    /\ \A f \in 0..(FrameCycle - 1) :
           (redraw_requested /\ frames = f) ~> (frames # f \/ panicked \/ exit_requested)

\* C26 witness: a frame whose render failed had requested the next redraw.
C26_Witness ==
    /\ state = "Some"
    /\ event = RedrawRequestedEvent
    /\ last.op = "render_failed"
    /\ redraw_requested
    /\ FirstCall(steps, "request_redraw") = FirstCall(steps, "graphics_state.render") - 1

\* C27: add_instance with a model index that names no bucket does nothing:
\* no write is issued, no bucket and no live count changes, and the call
\* does not fail; in GraphicsState for every such call made, and in the
\* textured pipeline for every such index and instance on the buckets held.
C27_UnknownIndexIsNoOp ==
    /\ [](\A i \in Len(models)..(Len(models) + 1), instance \in Instances :
              AddInstanceTo(models, i, instance)
                  = [models |-> models, panicked |-> FALSE, writes |-> <<>>])
    /\ [][ (last'.op = "add_instance" /\ ~HasModel(gs_models, last'.index)) =>
              /\ gs_models' = gs_models
              /\ last'.writes = <<>>
              /\ ~panicked'
      ]_vars

\* C27 witness: add_instance was called with the index 1 while one bucket,
\* of index 0, existed, and the process goes on.
C27_Witness ==
    /\ last.op = "add_instance"
    /\ last.index = 1
    /\ Len(gs_models) = 1
    /\ last.writes = <<>>
    /\ gs_models[1].num_instances = Len(gs_calls[1])
    /\ ~panicked

\* C28: the draw calls of one render pass are recorded in a fixed order:
\* one per model bucket in the order of the add_model calls, then the
\* debug squares, then the debug triangles; whatever the instance counts,
\* those of 0 included.
C28_DrawOrderFixed ==
    last.op = "render" =>
        /\ Len(last.draws) = Len(gs_models)
        /\ \A i \in 1..Len(gs_models) :
               /\ last.draws[i].order = i
               /\ last.draws[i].model = i - 1
               /\ last.draws[i].instances = gs_models[i].num_instances
        /\ Len(debug_draws) = 2
        /\ debug_draws[1].bucket = "debug_square"
        /\ debug_draws[1].order = Len(gs_models) + 1
        /\ debug_draws[1].instances = debug_square.num_instances
        /\ debug_draws[2].bucket = "debug_triangle"
        /\ debug_draws[2].order = Len(gs_models) + 2
        /\ debug_draws[2].instances = debug_triangle.num_instances

\* C28 witness: a pass over two buckets, the first empty and the second
\* not, with debug triangles and no debug square, recorded its four draw
\* calls in that order.
C28_Witness ==
    /\ last.op = "render"
    /\ Len(gs_models) = 2
    /\ gs_models[1].num_instances = 0
    /\ gs_models[2].num_instances > 0
    /\ debug_square.num_instances = 0
    /\ debug_triangle.num_instances > 0
    /\ <<last.draws[1].order, last.draws[2].order,
         debug_draws[1].order, debug_draws[2].order>> = <<1, 2, 3, 4>>

\* C29: the instance buffer of a bucket has max_instances * S bytes, S
\* the size of the raw instance; every write of add_instance, with n the
\* live count before it, covers the bytes [n * S, (n + 1) * S), which lie
\* inside the buffer; and as the count rises by one with the write, the
\* writes since the last reset of the count cover disjoint ranges, each
\* beginning where the one before ended.
C29_WritesStayInOwnSlot ==
    /\ [](/\ \A i \in 1..Len(models) :
                SizeOf(models[i].instance_buffer)
                    = models[i].max_instances * SizeOfInstanceRaw
          /\ \A i \in 1..Len(gs_models) :
                SizeOf(gs_models[i].instance_buffer)
                    = gs_models[i].max_instances * GsSizeOfInstanceRaw)
    /\ [][ /\ (last'.op = "render" /\ program = "textured_pipeline") =>
                 \A w \in 1..Len(last'.writes) :
                     LET n == Quad.num_instances + w - 1 IN
                     /\ last'.writes[w].model = quad_index
                     /\ last'.writes[w].offset = n * SizeOfInstanceRaw
                     /\ SizeOf(last'.writes[w].data) = SizeOfInstanceRaw
                     /\ (n + 1) * SizeOfInstanceRaw <= SizeOf(Quad.instance_buffer)
                     /\ w = Len(last'.writes) =>
                            ModelAt(models', quad_index).num_instances = n + 1
           /\ (last'.op = "add_instance" /\ last'.writes # <<>>) =>
                 LET model == ModelAt(gs_models, last'.index)
                     n     == model.num_instances
                 IN  /\ Len(last'.writes) = 1
                     /\ last'.writes[1].offset = n * GsSizeOfInstanceRaw
                     /\ SizeOf(last'.writes[1].data) = GsSizeOfInstanceRaw
                     /\ (n + 1) * GsSizeOfInstanceRaw <= SizeOf(model.instance_buffer)
                     /\ ModelAt(gs_models', last'.index).num_instances = n + 1
      ]_vars

\* C29 witness: a render that began at a live count above 0 wrote two
\* slots, the second ending at the end of the buffer.
C29_Witness ==
    /\ program = "textured_pipeline"
    /\ last.op = "render"
    /\ ~panicked
    /\ Len(last.writes) >= 2
    /\ last.writes[1].offset > 0
    /\ last.writes[2].offset = last.writes[1].offset + SizeOfInstanceRaw
    /\ last.writes[Len(last.writes)].offset + SizeOfInstanceRaw
           = SizeOf(Quad.instance_buffer)

\* C30: add_model returns as index the number of buckets before the call;
\* the bucket at that index is new, with live count 0 and the capacity
\* given, and the buckets before it are as they were.  For the calls made
\* on GraphicsState, and for every shape and capacity on the buckets held
\* by either renderer.
C30_AddModelReturnsNextIndex ==
    /\ [](\A shape \in Shapes, max_instances \in Capacities :
             /\ LET r == GsAddModelTo(gs_models, shape, max_instances) IN
                /\ r.model_index = Len(gs_models)
                /\ Len(r.models) = Len(gs_models) + 1
                /\ SubSeq(r.models, 1, Len(gs_models)) = gs_models
                /\ ModelAt(r.models, r.model_index).num_instances = 0
                /\ ModelAt(r.models, r.model_index).max_instances = max_instances
                /\ ModelAt(r.models, r.model_index).num_indices = shape.num_indices
             /\ LET r == AddModelTo(models, shape, max_instances) IN
                /\ r.model_index = Len(models)
                /\ Len(r.models) = Len(models) + 1
                /\ SubSeq(r.models, 1, Len(models)) = models
                /\ ModelAt(r.models, r.model_index).num_instances = 0
                /\ ModelAt(r.models, r.model_index).max_instances = max_instances)
    /\ [][ last'.op = "add_model" =>
              /\ last'.ret = Len(gs_models)
              /\ Len(gs_models') = Len(gs_models) + 1
              /\ SubSeq(gs_models', 1, Len(gs_models)) = gs_models
              /\ ModelAt(gs_models', last'.ret).num_instances = 0
              /\ ModelAt(gs_models', last'.ret).max_instances \in Capacities
              /\ ModelAt(gs_models', last'.ret).instance_buffer
                     = CreateBuffer(ModelAt(gs_models', last'.ret).max_instances
                                        * GsSizeOfInstanceRaw)
      ]_vars

\* C30 witness: the second add_model returned 1 and left the first bucket,
\* which holds an instance, as it was.
C30_Witness ==
    /\ last.op = "add_model"
    /\ last.ret = 1
    /\ Len(gs_models) = 2
    /\ gs_models[1].num_instances = 1
    /\ gs_models[2].num_instances = 0
    /\ gs_models[2].max_instances = 2

====
